---- MODULE Spec2Model ----
(***************************************************************************)
(* PubMed MCP server (functions/_middleware.ts): the request pipeline      *)
(* handleMCPRequest -> handleMCP -> tool operation -> fetchWithRetry ->    *)
(* XML decoder -> JSON-RPC envelope, with the shared response cache.       *)
(*                                                                         *)
(* Strings that flow into cache keys and request URLs are sequences of     *)
(* one-character strings, so that sorting, joining and percent-encoding    *)
(* are computed as the code computes them.  An optional value (a missing   *)
(* property, undefined) is the empty set; a present value v is {v}.        *)
(***************************************************************************)
EXTENDS Integers, Sequences, FiniteSets, TLC

\* ------------------------------------------------------------------------
\* String literals of the source
\* ------------------------------------------------------------------------
\* "https://eutils.ncbi.nlm.nih.gov/entrez/eutils"
EUTILS_BASE ==
    <<"h", "t", "t", "p", "s", ":", "/", "/", "e", "u", "t", "i", "l", "s",
      ".", "n", "c", "b", "i", ".", "n", "l", "m", ".", "n", "i", "h", ".",
      "g", "o", "v", "/", "e", "n", "t", "r", "e", "z", "/", "e", "u", "t",
      "i", "l", "s">>
\* "/esearch.fcgi"
ESEARCH_PATH ==
    <<"/", "e", "s", "e", "a", "r", "c", "h", ".", "f", "c", "g", "i">>
\* "/efetch.fcgi"
EFETCH_PATH ==
    <<"/", "e", "f", "e", "t", "c", "h", ".", "f", "c", "g", "i">>
\* "/elink.fcgi"
ELINK_PATH ==
    <<"/", "e", "l", "i", "n", "k", ".", "f", "c", "g", "i">>
\* "pubmed:"
KEY_PREFIX ==
    <<"p", "u", "b", "m", "e", "d", ":">>
\* "https://cache.pubmed.mcp/"
CACHE_ORIGIN ==
    <<"h", "t", "t", "p", "s", ":", "/", "/", "c", "a", "c", "h", "e", ".",
      "p", "u", "b", "m", "e", "d", ".", "m", "c", "p", "/">>
\* "api_key"
n_api_key ==
    <<"a", "p", "i", "_", "k", "e", "y">>
\* "db"
n_db ==
    <<"d", "b">>
\* "dbfrom"
n_dbfrom ==
    <<"d", "b", "f", "r", "o", "m">>
\* "id"
n_id ==
    <<"i", "d">>
\* "linkname"
n_linkname ==
    <<"l", "i", "n", "k", "n", "a", "m", "e">>
\* "retmax"
n_retmax ==
    <<"r", "e", "t", "m", "a", "x">>
\* "retmode"
n_retmode ==
    <<"r", "e", "t", "m", "o", "d", "e">>
\* "rettype"
n_rettype ==
    <<"r", "e", "t", "t", "y", "p", "e">>
\* "sort"
n_sort ==
    <<"s", "o", "r", "t">>
\* "term"
n_term ==
    <<"t", "e", "r", "m">>
\* "pubmed"
v_pubmed ==
    <<"p", "u", "b", "m", "e", "d">>
\* "xml"
v_xml ==
    <<"x", "m", "l">>
\* "relevance"
v_relevance ==
    <<"r", "e", "l", "e", "v", "a", "n", "c", "e">>
\* "pub_date"
v_pub_date ==
    <<"p", "u", "b", "_", "d", "a", "t", "e">>
\* "abstract"
v_abstract ==
    <<"a", "b", "s", "t", "r", "a", "c", "t">>
\* "medline"
v_medline ==
    <<"m", "e", "d", "l", "i", "n", "e">>
\* "pubmed_pubmed_citedin"
v_citedin ==
    <<"p", "u", "b", "m", "e", "d", "_", "p", "u", "b", "m", "e", "d", "_",
      "c", "i", "t", "e", "d", "i", "n">>
\* "undefined"
s_undefined ==
    <<"u", "n", "d", "e", "f", "i", "n", "e", "d">>
\* " AND "
s_and ==
    <<" ", "A", "N", "D", " ">>
\* "[PDAT]"
s_pdat ==
    <<"[", "P", "D", "A", "T", "]">>
\* """
s_quote ==
    <<"\"">>
\* ""[MeSH Terms] OR ""
s_mesh_or ==
    <<"\"", "[", "M", "e", "S", "H", " ", "T", "e", "r", "m", "s", "]", " ",
      "O", "R", " ", "\"">>
\* ""[All Fields]"
s_all_fields ==
    <<"\"", "[", "A", "l", "l", " ", "F", "i", "e", "l", "d", "s", "]">>
\* "("
s_lparen ==
    <<"(">>
\* ") AND ("clinical trial"[Publication Type] OR "clinical trial"[All Fields])"
s_trial ==
    <<")", " ", "A", "N", "D", " ", "(", "\"", "c", "l", "i", "n", "i", "c",
      "a", "l", " ", "t", "r", "i", "a", "l", "\"", "[", "P", "u", "b", "l",
      "i", "c", "a", "t", "i", "o", "n", " ", "T", "y", "p", "e", "]", " ",
      "O", "R", " ", "\"", "c", "l", "i", "n", "i", "c", "a", "l", " ", "t",
      "r", "i", "a", "l", "\"", "[", "A", "l", "l", " ", "F", "i", "e", "l",
      "d", "s", "]", ")">>
\* " AND ""
s_and_quote ==
    <<" ", "A", "N", "D", " ", "\"">>
\* ""[Author]"
s_author ==
    <<"\"", "[", "A", "u", "t", "h", "o", "r", "]">>
\* ""[Affiliation]"
s_affiliation ==
    <<"\"", "[", "A", "f", "f", "i", "l", "i", "a", "t", "i", "o", "n", "]">>
\* ":"
s_colon ==
    <<":">>
\* ","
s_comma ==
    <<",">>
\* "&"
s_amp ==
    <<"&">>
\* "="
s_eq ==
    <<"=">>
\* "?"
s_qmark ==
    <<"?">>
\* "-"
s_minus ==
    <<"-">>
\* "text/xml; charset=UTF-8"
ct_text_xml ==
    <<"t", "e", "x", "t", "/", "x", "m", "l", ";", " ", "c", "h", "a", "r",
      "s", "e", "t", "=", "U", "T", "F", "-", "8">>
\* "Application/XML"
ct_upper_xml ==
    <<"A", "p", "p", "l", "i", "c", "a", "t", "i", "o", "n", "/", "X", "M",
      "L">>
\* "text/plain"
ct_plain ==
    <<"t", "e", "x", "t", "/", "p", "l", "a", "i", "n">>

\* UTF-16 code unit of each character (the order String.prototype.sort uses)
Code ==
    " " :> 32 @@ "\"" :> 34 @@ "#" :> 35 @@ "%" :> 37 @@ "&" :> 38 @@
    "(" :> 40 @@ ")" :> 41 @@ "*" :> 42 @@ "+" :> 43 @@ "," :> 44 @@
    "-" :> 45 @@ "." :> 46 @@ "/" :> 47 @@ "0" :> 48 @@ "1" :> 49 @@
    "2" :> 50 @@ "3" :> 51 @@ "4" :> 52 @@ "5" :> 53 @@ "6" :> 54 @@
    "7" :> 55 @@ "8" :> 56 @@ "9" :> 57 @@ ":" :> 58 @@ ";" :> 59 @@
    "=" :> 61 @@ "?" :> 63 @@ "A" :> 65 @@ "B" :> 66 @@ "C" :> 67 @@
    "D" :> 68 @@ "E" :> 69 @@ "F" :> 70 @@ "G" :> 71 @@ "H" :> 72 @@
    "I" :> 73 @@ "J" :> 74 @@ "K" :> 75 @@ "L" :> 76 @@ "M" :> 77 @@
    "N" :> 78 @@ "O" :> 79 @@ "P" :> 80 @@ "Q" :> 81 @@ "R" :> 82 @@
    "S" :> 83 @@ "T" :> 84 @@ "U" :> 85 @@ "V" :> 86 @@ "W" :> 87 @@
    "X" :> 88 @@ "Y" :> 89 @@ "Z" :> 90 @@ "[" :> 91 @@ "]" :> 93 @@
    "_" :> 95 @@ "a" :> 97 @@ "b" :> 98 @@ "c" :> 99 @@ "d" :> 100 @@
    "e" :> 101 @@ "f" :> 102 @@ "g" :> 103 @@ "h" :> 104 @@ "i" :> 105 @@
    "j" :> 106 @@ "k" :> 107 @@ "l" :> 108 @@ "m" :> 109 @@ "n" :> 110 @@
    "o" :> 111 @@ "p" :> 112 @@ "q" :> 113 @@ "r" :> 114 @@ "s" :> 115 @@
    "t" :> 116 @@ "u" :> 117 @@ "v" :> 118 @@ "w" :> 119 @@ "x" :> 120 @@
    "y" :> 121 @@ "z" :> 122

\* String.prototype.toLowerCase, per character
Lower ==
    " " :> " " @@ "\"" :> "\"" @@ "#" :> "#" @@ "%" :> "%" @@ "&" :> "&" @@
    "(" :> "(" @@ ")" :> ")" @@ "*" :> "*" @@ "+" :> "+" @@ "," :> "," @@
    "-" :> "-" @@ "." :> "." @@ "/" :> "/" @@ "0" :> "0" @@ "1" :> "1" @@
    "2" :> "2" @@ "3" :> "3" @@ "4" :> "4" @@ "5" :> "5" @@ "6" :> "6" @@
    "7" :> "7" @@ "8" :> "8" @@ "9" :> "9" @@ ":" :> ":" @@ ";" :> ";" @@
    "=" :> "=" @@ "?" :> "?" @@ "A" :> "a" @@ "B" :> "b" @@ "C" :> "c" @@
    "D" :> "d" @@ "E" :> "e" @@ "F" :> "f" @@ "G" :> "g" @@ "H" :> "h" @@
    "I" :> "i" @@ "J" :> "j" @@ "K" :> "k" @@ "L" :> "l" @@ "M" :> "m" @@
    "N" :> "n" @@ "O" :> "o" @@ "P" :> "p" @@ "Q" :> "q" @@ "R" :> "r" @@
    "S" :> "s" @@ "T" :> "t" @@ "U" :> "u" @@ "V" :> "v" @@ "W" :> "w" @@
    "X" :> "x" @@ "Y" :> "y" @@ "Z" :> "z" @@ "[" :> "[" @@ "]" :> "]" @@
    "_" :> "_" @@ "a" :> "a" @@ "b" :> "b" @@ "c" :> "c" @@ "d" :> "d" @@
    "e" :> "e" @@ "f" :> "f" @@ "g" :> "g" @@ "h" :> "h" @@ "i" :> "i" @@
    "j" :> "j" @@ "k" :> "k" @@ "l" :> "l" @@ "m" :> "m" @@ "n" :> "n" @@
    "o" :> "o" @@ "p" :> "p" @@ "q" :> "q" @@ "r" :> "r" @@ "s" :> "s" @@
    "t" :> "t" @@ "u" :> "u" @@ "v" :> "v" @@ "w" :> "w" @@ "x" :> "x" @@
    "y" :> "y" @@ "z" :> "z"

\* URLSearchParams.toString(): application/x-www-form-urlencoded byte serialisation
FormEncoded ==
    " " :> <<"+">> @@ "\"" :> <<"%", "2", "2">> @@
    "#" :> <<"%", "2", "3">> @@ "%" :> <<"%", "2", "5">> @@
    "&" :> <<"%", "2", "6">> @@ "(" :> <<"%", "2", "8">> @@
    ")" :> <<"%", "2", "9">> @@ "*" :> <<"*">> @@ "+" :> <<"%", "2", "B">> @@
    "," :> <<"%", "2", "C">> @@ "-" :> <<"-">> @@ "." :> <<".">> @@
    "/" :> <<"%", "2", "F">> @@ "0" :> <<"0">> @@ "1" :> <<"1">> @@
    "2" :> <<"2">> @@ "3" :> <<"3">> @@ "4" :> <<"4">> @@ "5" :> <<"5">> @@
    "6" :> <<"6">> @@ "7" :> <<"7">> @@ "8" :> <<"8">> @@ "9" :> <<"9">> @@
    ":" :> <<"%", "3", "A">> @@ ";" :> <<"%", "3", "B">> @@
    "=" :> <<"%", "3", "D">> @@ "?" :> <<"%", "3", "F">> @@ "A" :> <<"A">> @@
    "B" :> <<"B">> @@ "C" :> <<"C">> @@ "D" :> <<"D">> @@ "E" :> <<"E">> @@
    "F" :> <<"F">> @@ "G" :> <<"G">> @@ "H" :> <<"H">> @@ "I" :> <<"I">> @@
    "J" :> <<"J">> @@ "K" :> <<"K">> @@ "L" :> <<"L">> @@ "M" :> <<"M">> @@
    "N" :> <<"N">> @@ "O" :> <<"O">> @@ "P" :> <<"P">> @@ "Q" :> <<"Q">> @@
    "R" :> <<"R">> @@ "S" :> <<"S">> @@ "T" :> <<"T">> @@ "U" :> <<"U">> @@
    "V" :> <<"V">> @@ "W" :> <<"W">> @@ "X" :> <<"X">> @@ "Y" :> <<"Y">> @@
    "Z" :> <<"Z">> @@ "[" :> <<"%", "5", "B">> @@ "]" :> <<"%", "5", "D">> @@
    "_" :> <<"_">> @@ "a" :> <<"a">> @@ "b" :> <<"b">> @@ "c" :> <<"c">> @@
    "d" :> <<"d">> @@ "e" :> <<"e">> @@ "f" :> <<"f">> @@ "g" :> <<"g">> @@
    "h" :> <<"h">> @@ "i" :> <<"i">> @@ "j" :> <<"j">> @@ "k" :> <<"k">> @@
    "l" :> <<"l">> @@ "m" :> <<"m">> @@ "n" :> <<"n">> @@ "o" :> <<"o">> @@
    "p" :> <<"p">> @@ "q" :> <<"q">> @@ "r" :> <<"r">> @@ "s" :> <<"s">> @@
    "t" :> <<"t">> @@ "u" :> <<"u">> @@ "v" :> <<"v">> @@ "w" :> <<"w">> @@
    "x" :> <<"x">> @@ "y" :> <<"y">> @@ "z" :> <<"z">>

\* new URL(): percent-encoding of the path and query of a parsed URL
UrlEncoded ==
    " " :> <<"%", "2", "0">> @@ "\"" :> <<"%", "2", "2">> @@
    "#" :> <<"%", "2", "3">> @@ "%" :> <<"%">> @@ "&" :> <<"&">> @@
    "(" :> <<"(">> @@ ")" :> <<")">> @@ "*" :> <<"*">> @@ "+" :> <<"+">> @@
    "," :> <<",">> @@ "-" :> <<"-">> @@ "." :> <<".">> @@ "/" :> <<"/">> @@
    "0" :> <<"0">> @@ "1" :> <<"1">> @@ "2" :> <<"2">> @@ "3" :> <<"3">> @@
    "4" :> <<"4">> @@ "5" :> <<"5">> @@ "6" :> <<"6">> @@ "7" :> <<"7">> @@
    "8" :> <<"8">> @@ "9" :> <<"9">> @@ ":" :> <<":">> @@ ";" :> <<";">> @@
    "=" :> <<"=">> @@ "?" :> <<"?">> @@ "A" :> <<"A">> @@ "B" :> <<"B">> @@
    "C" :> <<"C">> @@ "D" :> <<"D">> @@ "E" :> <<"E">> @@ "F" :> <<"F">> @@
    "G" :> <<"G">> @@ "H" :> <<"H">> @@ "I" :> <<"I">> @@ "J" :> <<"J">> @@
    "K" :> <<"K">> @@ "L" :> <<"L">> @@ "M" :> <<"M">> @@ "N" :> <<"N">> @@
    "O" :> <<"O">> @@ "P" :> <<"P">> @@ "Q" :> <<"Q">> @@ "R" :> <<"R">> @@
    "S" :> <<"S">> @@ "T" :> <<"T">> @@ "U" :> <<"U">> @@ "V" :> <<"V">> @@
    "W" :> <<"W">> @@ "X" :> <<"X">> @@ "Y" :> <<"Y">> @@ "Z" :> <<"Z">> @@
    "[" :> <<"[">> @@ "]" :> <<"]">> @@ "_" :> <<"_">> @@ "a" :> <<"a">> @@
    "b" :> <<"b">> @@ "c" :> <<"c">> @@ "d" :> <<"d">> @@ "e" :> <<"e">> @@
    "f" :> <<"f">> @@ "g" :> <<"g">> @@ "h" :> <<"h">> @@ "i" :> <<"i">> @@
    "j" :> <<"j">> @@ "k" :> <<"k">> @@ "l" :> <<"l">> @@ "m" :> <<"m">> @@
    "n" :> <<"n">> @@ "o" :> <<"o">> @@ "p" :> <<"p">> @@ "q" :> <<"q">> @@
    "r" :> <<"r">> @@ "s" :> <<"s">> @@ "t" :> <<"t">> @@ "u" :> <<"u">> @@
    "v" :> <<"v">> @@ "w" :> <<"w">> @@ "x" :> <<"x">> @@ "y" :> <<"y">> @@
    "z" :> <<"z">>


\* ------------------------------------------------------------------------
\* Constants of the source
\* ------------------------------------------------------------------------
TIMEOUT_MS == 30000
MAX_RETRIES == 3
CACHE_TTL == 3600

\* ------------------------------------------------------------------------
\* JavaScript values and string primitives
\* ------------------------------------------------------------------------
\* undefined / a missing property
Absent == {}
Some(v) == {v}
The(o) == CHOOSE v \in o : TRUE
\* o ?? d
OrElse(o, d) == IF o = Absent THEN d ELSE The(o)

Min(a, b) == IF a < b THEN a ELSE b
Max(a, b) == IF a > b THEN a ELSE b

\* Array.prototype.join / string concatenation of a list of strings
RECURSIVE Join(_, _)
Join(parts, sep) ==
    IF parts = <<>> THEN <<>>
    ELSE IF Len(parts) = 1 THEN parts[1]
    ELSE CHOOSE joined \in
             {Join(left, sep) \o sep \o Join(right, sep) :
                 left \in {SubSeq(parts, 1, Len(parts) \div 2)},
                 right \in {SubSeq(parts, Len(parts) \div 2 + 1, Len(parts))}} : TRUE

\* Array.prototype.slice(start, end) with the negative-index rules
Slice(s, start, end) ==
    LET n == Len(s)
        from == IF start < 0 THEN Max(n + start, 0) ELSE Min(start, n)
        to == IF end < 0 THEN Max(n + end, 0) ELSE Min(end, n)
    IN  IF to <= from THEN <<>> ELSE SubSeq(s, from + 1, to)

\* a < b in the order of the default Array.prototype.sort comparator
StrLess(a, b) ==
    \E i \in 1..(Min(Len(a), Len(b)) + 1) :
        /\ \A j \in 1..(i - 1) : a[j] = b[j]
        /\ \/ i = Len(a) + 1 /\ i <= Len(b)
           \/ i <= Len(a) /\ i <= Len(b) /\ Code[a[i]] < Code[b[i]]

\* Array.prototype.sort() on a list of strings
RECURSIVE SortStrings(_)
SortStrings(s) ==
    IF s = <<>> THEN <<>>
    ELSE LET rest == SortStrings(Tail(s))
             x == Head(s)
             k == Cardinality({i \in 1..Len(rest) : ~StrLess(x, rest[i])})
         IN  SubSeq(rest, 1, k) \o <<x>> \o SubSeq(rest, k + 1, Len(rest))

\* Number.prototype.toString() of an integer
Digit(d) == <<"0", "1", "2", "3", "4", "5", "6", "7", "8", "9">>[d + 1]
RECURSIVE NatToString(_)
NatToString(n) ==
    IF n < 10 THEN <<Digit(n)>> ELSE NatToString(n \div 10) \o <<Digit(n % 10)>>
NumberToString(n) == IF n < 0 THEN s_minus \o NatToString(0 - n) ELSE NatToString(n)

\* a template-literal substitution ${x} of a possibly missing string
Str(o) == OrElse(o, s_undefined)

\* String.prototype.toLowerCase
ToLowerCase(s) == [i \in 1..Len(s) |-> Lower[s[i]]]

\* String.prototype.includes
Includes(s, sub) ==
    \E i \in 0..(Len(s) - Len(sub)) : SubSeq(s, i + 1, i + Len(sub)) = sub

\* the concatenation of the images of the characters of s under a table
RECURSIVE MapChars(_, _)
MapChars(table, s) ==
    IF s = <<>> THEN <<>>
    ELSE IF Len(s) = 1 THEN table[s[1]]
    ELSE CHOOSE mapped \in
             {MapChars(table, left) \o MapChars(table, right) :
                 left \in {SubSeq(s, 1, Len(s) \div 2)},
                 right \in {SubSeq(s, Len(s) \div 2 + 1, Len(s))}} : TRUE

\* ------------------------------------------------------------------------
\* Record<string, string>: the entries in insertion order
\* ------------------------------------------------------------------------
Prop(n, v) == [name |-> n, value |-> v]
Keys(obj) == [i \in 1..Len(obj) |-> obj[i].name]
HasProp(obj, n) == \E i \in 1..Len(obj) : obj[i].name = n
GetProp(obj, n) == obj[CHOOSE i \in 1..Len(obj) : obj[i].name = n].value
\* obj[n] = v
SetProp(obj, n, v) ==
    IF HasProp(obj, n)
    THEN [i \in 1..Len(obj) |-> IF obj[i].name = n THEN Prop(n, v) ELSE obj[i]]
    ELSE Append(obj, Prop(n, v))

\* ------------------------------------------------------------------------
\* HTTP utilities with caching
\* ------------------------------------------------------------------------
\* getCacheKey without the sort of the names
getCacheKey_Unsorted(url, params) ==
    KEY_PREFIX \o url \o s_colon
        \o Join([i \in 1..Len(params) |->
                    params[i].name \o s_eq \o params[i].value], s_amp)

getCacheKey(url, params) ==
    LET sorted == SortStrings(Keys(params))
        pairs == [i \in 1..Len(sorted) |->
                     sorted[i] \o s_eq \o GetProp(params, sorted[i])]
    IN  KEY_PREFIX \o url \o s_colon \o Join(pairs, s_amp)

\* the part of a URL string before its fragment
BeforeFragment(s) ==
    LET hashes == {i \in 1..Len(s) : s[i] = "#"}
    IN  IF hashes = {} THEN s
        ELSE SubSeq(s, 1, (CHOOSE i \in hashes : \A j \in hashes : i <= j) - 1)

\* new URL(`https://cache.pubmed.mcp/${cacheKey}`) as the cache store
\* matches it: the serialised URL, the fragment excluded
CacheUrl(cacheKey) == CACHE_ORIGIN \o MapChars(UrlEncoded, BeforeFragment(cacheKey))

\* new URLSearchParams(params).toString()
UrlParams(params) ==
    Join([i \in 1..Len(params) |->
             MapChars(FormEncoded, params[i].name) \o s_eq
                 \o MapChars(FormEncoded, params[i].value)], s_amp)

FullUrl(url, params) == url \o s_qmark \o UrlParams(params)

\* the backoff of the deployment guide: 2 s, 4 s, 8 s
BackoffMs_Doubled(attempt) == (2 ^ (attempt + 1)) * 1000

\* Math.pow(2, attempt) * 1000
BackoffMs(attempt) == (2 ^ attempt) * 1000

\* JSON.stringify(result) followed by cachedResponse.json(): the stored
\* object has the properties of result that are defined, with their values
JsonRoundTrip(result) == [xml |-> result.xml, text |-> result.text]

\* a classification that looks for "xml" in the header as sent
ClassifyResponse_CaseSensitive(contentType, body) ==
    IF Includes(OrElse(contentType, <<>>), v_xml)
    THEN [xml |-> Some(body), text |-> Absent]
    ELSE [xml |-> Absent, text |-> Some(body)]

\* the {xml?, text?} object built from a 2xx response
ClassifyResponse(contentType, body) ==
    LET ct == IF contentType = Absent THEN <<>> ELSE ToLowerCase(The(contentType))
    IN  IF Includes(ct, v_xml)
        THEN [xml |-> Some(body), text |-> Absent]
        ELSE [xml |-> Absent, text |-> Some(body)]

EmptyPayload == [xml |-> Absent, text |-> Absent]

\* ------------------------------------------------------------------------
\* XML parsing utilities
\*
\* A response body is modelled by the document DOMParser builds from it:
\* the Count and QueryTranslation elements (first of each, if any), every
\* Id element in document order with whether it lies inside a Link element,
\* and every PubmedArticle element.  empty marks the zero-length body.
\* raises marks a PubmedArticle element on which a DOM call of the
\* per-article callback throws.
\* ------------------------------------------------------------------------
\* the value of a JavaScript number that is an integer, and NaN
Num(n) == [nan |-> FALSE, val |-> n]
NaN == [nan |-> TRUE, val |-> 0]

IsDigit(c) == c \in {"0", "1", "2", "3", "4", "5", "6", "7", "8", "9"}
DigitValue(c) == CHOOSE d \in 0..9 : Digit(d) = c

RECURSIVE DigitsValue(_, _)
DigitsValue(s, acc) ==
    IF s = <<>> \/ ~IsDigit(Head(s)) THEN acc
    ELSE DigitsValue(Tail(s), acc * 10 + DigitValue(Head(s)))

RECURSIVE SkipSpaces(_)
SkipSpaces(s) == IF s # <<>> /\ Head(s) = " " THEN SkipSpaces(Tail(s)) ELSE s

\* parseInt(s, 10)
ParseInt(s) ==
    LET t == SkipSpaces(s)
        signed == t # <<>> /\ Head(t) \in {"-", "+"}
        digits == IF signed THEN Tail(t) ELSE t
    IN  IF digits = <<>> \/ ~IsDigit(Head(digits)) THEN NaN
        ELSE IF signed /\ Head(t) = "-" THEN Num(0 - DigitsValue(digits, 0))
        ELSE Num(DigitsValue(digits, 0))

\* the texts of a list of elements that are not the empty string
RECURSIVE NonEmptyTexts(_)
NonEmptyTexts(texts) ==
    IF texts = <<>> THEN <<>>
    ELSE IF Head(texts) = <<>> THEN NonEmptyTexts(Tail(texts))
    ELSE <<Head(texts)>> \o NonEmptyTexts(Tail(texts))

EmptySearchResult == [count |-> Num(0), pmids |-> <<>>, query_translation |-> <<>>]

parseESearchXML(body) ==
    LET doc == body.doc
        count == IF doc.Count # Absent /\ The(doc.Count) # <<>>
                 THEN ParseInt(The(doc.Count)) ELSE Num(0)
        pmids == NonEmptyTexts([i \in 1..Len(doc.Ids) |-> doc.Ids[i].text])
    IN  [count |-> count, pmids |-> pmids,
         query_translation |-> OrElse(doc.QueryTranslation, <<>>)]

\* the authors loop of parseEFetchXML
RECURSIVE AuthorNames(_)
AuthorNames(authors) ==
    IF authors = <<>> THEN <<>>
    ELSE LET a == Head(authors)
             forename == a.ForeName # Absent /\ The(a.ForeName) # <<>>
             lastname == a.LastName # Absent /\ The(a.LastName) # <<>>
         IN  (IF forename /\ lastname
                 THEN <<The(a.ForeName) \o <<" ">> \o The(a.LastName)>>
              ELSE IF lastname THEN <<The(a.LastName)>>
              ELSE <<>>) \o AuthorNames(Tail(authors))

\* the ArticleId loop of parseEFetchXML: the last one of type doi wins
RECURSIVE DoiOf(_, _)
DoiOf(articleIds, doi) ==
    IF articleIds = <<>> THEN doi
    ELSE DoiOf(Tail(articleIds),
               IF Head(articleIds).IdType = Some("doi")
               THEN Head(articleIds).text ELSE doi)

\* a callback that substitutes a missing title into a template literal
ParseArticle_Undefined(e) ==
    LET year == OrElse(e.Year, <<>>)
        month == OrElse(e.Month, <<>>)
    IN  [pmid |-> OrElse(e.PMID, <<>>),
         title |-> Str(e.ArticleTitle),
         authors |-> AuthorNames(e.Authors),
         journal |-> OrElse(e.JournalTitle, <<>>),
         pub_date |-> IF month # <<>> THEN year \o s_minus \o month ELSE year,
         abstract |-> Join(NonEmptyTexts(e.AbstractTexts), <<" ">>),
         doi |-> DoiOf(e.ArticleIds, <<>>)]

\* the body of the per-article callback of parseEFetchXML
ParseArticle(e) ==
    LET year == OrElse(e.Year, <<>>)
        month == OrElse(e.Month, <<>>)
    IN  [pmid |-> OrElse(e.PMID, <<>>),
         title |-> OrElse(e.ArticleTitle, <<>>),
         authors |-> AuthorNames(e.Authors),
         journal |-> OrElse(e.JournalTitle, <<>>),
         pub_date |-> IF month # <<>> THEN year \o s_minus \o month ELSE year,
         abstract |-> Join(NonEmptyTexts(e.AbstractTexts), <<" ">>),
         doi |-> DoiOf(e.ArticleIds, <<>>)]

\* a decoder with the outer try/catch only: one failure gives []
parseEFetchXML_AbortsOnFailure(body) ==
    IF \E i \in 1..Len(body.doc.Articles) : body.doc.Articles[i].raises
    THEN <<>>
    ELSE [i \in 1..Len(body.doc.Articles) |-> ParseArticle(body.doc.Articles[i])]

\* articleElems.forEach with its try/catch: each callback pushes its record,
\* or throws before the push and is caught, logged and left out
parseEFetchXML(body) ==
    LET decoded == SelectSeq(body.doc.Articles, LAMBDA e : ~e.raises)
    IN  [i \in 1..Len(decoded) |-> ParseArticle(decoded[i])]

RECURSIVE LinkIds(_)
LinkIds(ids) ==
    IF ids = <<>> THEN <<>>
    ELSE (IF Head(ids).inLink THEN <<Head(ids).text>> ELSE <<>>)
             \o LinkIds(Tail(ids))

parseELinkXML(body) == NonEmptyTexts(LinkIds(body.doc.Ids))

\* ------------------------------------------------------------------------
\* Tool implementations
\*
\* Each operation is split at its await of fetchWithRetry: <tool>Call is
\* the code before it (the early return, or the url and parameters of the
\* fetch), <tool>Return the code after it, including the catch clause.
\* ------------------------------------------------------------------------
SearchValue(r) == [kind |-> "SearchResult", v |-> r]
ListValue(l) == [kind |-> "Array", v |-> l]

EarlyReturn(value) == [kind |-> "return", value |-> value]
FetchCall(path, params, limit) ==
    [kind |-> "fetch", url |-> EUTILS_BASE \o path, params |-> params,
     limit |-> limit]

\* a truthy optional string: present and not empty
Truthy(o) == o # Absent /\ The(o) # <<>>

\* Math.min(Math.max(1, maxResults), 100)
ClampedMax(maxResults) == Min(Max(1, maxResults), 100)

\* sortBy === "relevance" ? "relevance" : "pub_date"
SortParam(sort_by) ==
    IF OrElse(sort_by, "relevance") = "relevance" THEN v_relevance ELSE v_pub_date

ESearchParams(term, clampedMax, sort) ==
    <<Prop(n_db, v_pubmed), Prop(n_term, term),
      Prop(n_retmax, NumberToString(clampedMax)), Prop(n_retmode, v_xml),
      Prop(n_sort, sort)>>

searchArticlesCall(a) ==
    LET maxResults == OrElse(a.max_results, 20)
        q0 == a.query
        q1 == IF Truthy(a.min_date)
              THEN Some(Str(q0) \o s_and \o The(a.min_date) \o s_pdat) ELSE q0
        q2 == IF Truthy(a.max_date)
              THEN Some(Str(q1) \o s_and \o The(a.max_date) \o s_pdat) ELSE q1
        clampedMax == ClampedMax(maxResults)
    IN  FetchCall(ESEARCH_PATH,
                  ESearchParams(Str(q2), clampedMax, SortParam(a.sort_by)),
                  Some(clampedMax))

\* the fetch of every identifier given, however many
getArticleDetailsCall_NoLimit(a) ==
    IF a.pmids = Absent \/ (The(a.pmids).isArray /\ The(a.pmids).items = <<>>)
    THEN EarlyReturn(ListValue(<<>>))
    ELSE IF ~The(a.pmids).isArray
    THEN EarlyReturn(ListValue(<<>>))
    ELSE FetchCall(EFETCH_PATH,
                   <<Prop(n_db, v_pubmed),
                     Prop(n_id, Join(The(a.pmids).items, s_comma)),
                     Prop(n_retmode, v_xml),
                     Prop(n_rettype, IF OrElse(a.include_abstract, TRUE)
                                     THEN v_abstract ELSE v_medline)>>,
                   Absent)

getArticleDetailsCall(a) ==
    IF a.pmids = Absent \/ (The(a.pmids).isArray /\ The(a.pmids).items = <<>>)
    THEN EarlyReturn(ListValue(<<>>))
    ELSE IF ~The(a.pmids).isArray
    THEN \* pmids.slice(...).join is not a function: caught at line 450
         EarlyReturn(ListValue(<<>>))
    ELSE LET includeAbstract == OrElse(a.include_abstract, TRUE)
             limitedPmids == Slice(The(a.pmids).items, 0, 200)
             pmidString == Join(limitedPmids, s_comma)
         IN  FetchCall(EFETCH_PATH,
                       <<Prop(n_db, v_pubmed), Prop(n_id, pmidString),
                         Prop(n_retmode, v_xml),
                         Prop(n_rettype, IF includeAbstract THEN v_abstract
                                                            ELSE v_medline)>>,
                       Absent)

searchByCompoundCall(a, currentYear) ==
    LET includeSynonyms == OrElse(a.include_synonyms, TRUE)
        maxResults == OrElse(a.max_results, 20)
        yearsBack == OrElse(a.years_back, 10)
        name == Str(a.compound_name)
        q0 == IF includeSynonyms
              THEN s_quote \o name \o s_mesh_or \o name \o s_all_fields
              ELSE s_quote \o name \o s_all_fields
        q1 == IF yearsBack > 0
              THEN q0 \o s_and \o NumberToString(currentYear - yearsBack)
                      \o s_colon \o NumberToString(currentYear) \o s_pdat
              ELSE q0
        clampedMax == ClampedMax(maxResults)
    IN  FetchCall(ESEARCH_PATH, ESearchParams(q1, clampedMax, v_relevance),
                  Some(clampedMax))

searchClinicalTrialsCall(a) ==
    LET maxResults == OrElse(a.max_results, 20)
        q0 == s_lparen \o Str(a.condition_or_drug) \o s_trial
        q1 == IF Truthy(a.trial_phase)
              THEN q0 \o s_and_quote \o The(a.trial_phase) \o s_all_fields
              ELSE q0
        clampedMax == ClampedMax(maxResults)
    IN  FetchCall(ESEARCH_PATH, ESearchParams(q1, clampedMax, v_pub_date),
                  Some(clampedMax))

searchByAuthorCall(a) ==
    LET maxResults == OrElse(a.max_results, 50)
        q0 == s_quote \o Str(a.author_name) \o s_author
        q1 == IF Truthy(a.affiliation)
              THEN q0 \o s_and_quote \o The(a.affiliation) \o s_affiliation
              ELSE q0
        clampedMax == ClampedMax(maxResults)
    IN  FetchCall(ESEARCH_PATH, ESearchParams(q1, clampedMax, v_pub_date),
                  Some(clampedMax))

\* a search that wraps the query in parentheses
advancedBooleanSearchCall_Wrapped(a) ==
    LET clampedMax == ClampedMax(OrElse(a.max_results, 20))
    IN  FetchCall(ESEARCH_PATH,
                  ESearchParams(s_lparen \o Str(a.query) \o <<")">>, clampedMax,
                                SortParam(a.sort_by)),
                  Some(clampedMax))

advancedBooleanSearchCall(a) ==
    LET maxResults == OrElse(a.max_results, 20)
        clampedMax == ClampedMax(maxResults)
    IN  FetchCall(ESEARCH_PATH,
                  ESearchParams(Str(a.query), clampedMax, SortParam(a.sort_by)),
                  Some(clampedMax))

getArticleCitationsCall(a) ==
    LET maxResults == OrElse(a.max_results, 50)
    IN  FetchCall(ELINK_PATH,
                  <<Prop(n_dbfrom, v_pubmed), Prop(n_db, v_pubmed),
                    Prop(n_id, Str(a.pmid)), Prop(n_linkname, v_citedin),
                    Prop(n_retmode, v_xml)>>,
                  Some(maxResults))

\* what fetchWithRetry gave its caller: a payload, or a thrown error
Returned(payload) == [kind |-> "payload", payload |-> payload]
Thrown(error) == [kind |-> "throw", error |-> error]

\* if (result.xml): the xml property is present and not the empty string
HasXml(outcome) ==
    /\ outcome.kind = "payload"
    /\ outcome.payload.xml # Absent
    /\ ~The(outcome.payload.xml).empty

\* the code after the fetch of the five search operations
searchReturn(outcome) ==
    IF HasXml(outcome)
    THEN SearchValue(parseESearchXML(The(outcome.payload.xml)))
    ELSE SearchValue(EmptySearchResult)

getArticleDetailsReturn(outcome) ==
    IF HasXml(outcome)
    THEN ListValue(parseEFetchXML(The(outcome.payload.xml)))
    ELSE ListValue(<<>>)

\* citations returned without the slice
getArticleCitationsReturn_Unsliced(a, outcome) ==
    IF HasXml(outcome)
    THEN ListValue(parseELinkXML(The(outcome.payload.xml)))
    ELSE ListValue(<<>>)

getArticleCitationsReturn(a, outcome) ==
    LET maxResults == OrElse(a.max_results, 50)
    IN  IF HasXml(outcome)
        THEN ListValue(Slice(parseELinkXML(The(outcome.payload.xml)), 0, maxResults))
        ELSE ListValue(<<>>)

\* ------------------------------------------------------------------------
\* MCP protocol handlers
\* ------------------------------------------------------------------------
\* the names handleMCP routes to an operation
ToolNames ==
    {"search_articles", "get_article_details", "search_by_compound",
     "search_clinical_trials", "search_by_author", "advanced_boolean_search",
     "get_article_citations"}

SearchTools == ToolNames \ {"get_article_details", "get_article_citations"}

\* the operation a tool name is routed to, up to its fetch
ToolCall(name, a, currentYear) ==
    CASE name = "search_articles" -> searchArticlesCall(a)
      [] name = "get_article_details" -> getArticleDetailsCall(a)
      [] name = "search_by_compound" -> searchByCompoundCall(a, currentYear)
      [] name = "search_clinical_trials" -> searchClinicalTrialsCall(a)
      [] name = "search_by_author" -> searchByAuthorCall(a)
      [] name = "advanced_boolean_search" -> advancedBooleanSearchCall(a)
      [] name = "get_article_citations" -> getArticleCitationsCall(a)

\* the operation a tool name is routed to, from its fetch on
ToolReturn(name, a, outcome) ==
    CASE name \in SearchTools -> searchReturn(outcome)
      [] name = "get_article_details" -> getArticleDetailsReturn(outcome)
      [] name = "get_article_citations" -> getArticleCitationsReturn(a, outcome)

ResultEnvelope(id, result) ==
    [jsonrpc |-> "2.0", id |-> id, result |-> Some(result), error |-> Absent]
ErrorEnvelope(id, code, message) ==
    [jsonrpc |-> "2.0", id |-> id, result |-> Absent,
     error |-> Some([code |-> code, message |-> message])]

\* the envelope of a finished tools/call
ToolEnvelope(id, toolResult) ==
    ResultEnvelope(id, [kind |-> "content", type |-> "text", value |-> toolResult])

\* jsonResponse(data, status)
jsonResponse(data, status) == [status |-> status, data |-> data]

\* ------------------------------------------------------------------------
\* Inputs: request bodies, upstream responses, environment
\* ------------------------------------------------------------------------
MaxCacheEntries == 1

Procs == {1, 2}

\* the values of env.NCBI_API_KEY
ApiKeys == {Absent, Some(<<>>), Some(<<"K", "9">>)}

\* new Date().getUTCFullYear()
CurrentYears == {2026}

Q1 == <<"a", "b">>
Q2 == <<"a", "#", "b">>

NoArgs ==
    [query |-> Absent, max_results |-> Absent, min_date |-> Absent,
     max_date |-> Absent, sort_by |-> Absent, pmids |-> Absent,
     include_abstract |-> Absent, compound_name |-> Absent,
     include_synonyms |-> Absent, years_back |-> Absent,
     condition_or_drug |-> Absent, trial_phase |-> Absent,
     author_name |-> Absent, affiliation |-> Absent, pmid |-> Absent]

PmidArray(items) == Some([isArray |-> TRUE, items |-> items])
NotAnArray == Some([isArray |-> FALSE, items |-> <<>>])

\* the arguments objects of the tools/call requests, per tool name
ToolArguments(name) ==
    CASE name = "search_articles" ->
           {Absent,
            Some([NoArgs EXCEPT !.query = Some(Q1)]),
            Some([NoArgs EXCEPT !.query = Some(Q2), !.max_results = Some(1),
                                !.min_date = Some(<<"2", "0", "2", "0">>),
                                !.max_date = Some(<<"2", "0", "2", "1">>),
                                !.sort_by = Some("date")])}
      [] name = "get_article_details" ->
           {Absent,
            Some([NoArgs EXCEPT !.pmids = PmidArray(<<>>)]),
            Some([NoArgs EXCEPT !.pmids = NotAnArray]),
            Some([NoArgs EXCEPT !.pmids = PmidArray(<<<<"7">>, <<"8">>>>),
                                !.include_abstract = Some(FALSE)])}
      [] name = "search_by_compound" ->
           {Some([NoArgs EXCEPT !.compound_name = Some(Q1),
                                !.max_results = Some(0)])}
      [] name = "search_clinical_trials" ->
           {Some([NoArgs EXCEPT !.condition_or_drug = Some(Q1),
                                !.trial_phase = Some(<<"P", "1">>),
                                !.max_results = Some(500)])}
      [] name = "search_by_author" ->
           {Some([NoArgs EXCEPT !.author_name = Some(Q1),
                                !.max_results = Some(37)])}
      [] name = "advanced_boolean_search" ->
           {Some([NoArgs EXCEPT !.query = Some(Q1)])}
      [] name = "get_article_citations" ->
           {Some([NoArgs EXCEPT !.pmid = Some(<<"7">>), !.max_results = Some(m)]) :
               m \in {-1, 2, 500}}
      [] OTHER -> {Absent}

Request(body, method, params) ==
    [body |-> body, id |-> Some(7), method |-> method, params |-> params]

\* the bodies POSTed to /mcp: text that is not JSON, the JSON value null,
\* and JSON-RPC request objects
Requests ==
    {Request("unparseable", Absent, Absent), Request("null", Absent, Absent)}
    \cup {Request("object", Some(m), Absent) :
             m \in {"initialize", "tools/list", "tools/call", "resources/list"}}
    \cup UNION {{Request("object", Some("tools/call"),
                          Some([name |-> Some(n), arguments |-> a])) :
                     a \in ToolArguments(n)} :
                 n \in ToolNames \cup {"delete_article"}}

NoDoc == [Count |-> Absent, Ids |-> <<>>, QueryTranslation |-> Absent, Articles |-> <<>>]
Id(text, inLink) == [text |-> text, inLink |-> inLink]

ESearchDoc ==
    [NoDoc EXCEPT !.Count = Some(<<"3">>),
                  !.Ids = <<Id(<<"7">>, FALSE), Id(<<"8">>, FALSE), Id(<<"9">>, FALSE)>>,
                  !.QueryTranslation = Some(Q1)]

EFetchDoc ==
    [NoDoc EXCEPT !.Articles =
        <<[PMID |-> Some(<<"7">>), ArticleTitle |-> Some(<<"T">>),
           Authors |-> <<[LastName |-> Some(<<"D">>), ForeName |-> Some(<<"J">>)],
                         [LastName |-> Some(<<"E">>), ForeName |-> Absent]>>,
           JournalTitle |-> Absent, Year |-> Some(<<"2", "0", "2", "0">>),
           Month |-> Absent, AbstractTexts |-> <<<<"X">>, <<"Y">>>>,
           ArticleIds |-> <<[IdType |-> Some("doi"), text |-> <<"1", "0", ".", "1">>]>>,
           raises |-> FALSE]>>]

ELinkDoc ==
    [NoDoc EXCEPT !.Ids = <<Id(<<"7">>, FALSE), Id(<<"1">>, TRUE),
                            Id(<<"2">>, TRUE), Id(<<"3">>, TRUE)>>]

Body(doc) == [empty |-> FALSE, doc |-> doc]
EmptyBody == [empty |-> TRUE, doc |-> NoDoc]

\* the bodies an endpoint answers with: no text, text that is malformed or
\* has none of the elements, and a document of the endpoint's shape
Bodies(url) ==
    {EmptyBody, Body(NoDoc)} \cup
    (IF url = EUTILS_BASE \o ESEARCH_PATH THEN {Body(ESearchDoc)}
     ELSE IF url = EUTILS_BASE \o EFETCH_PATH THEN {Body(EFetchDoc)}
     ELSE {Body(ELinkDoc)})

ContentTypes == {Absent, Some(ct_text_xml), Some(ct_upper_xml), Some(ct_plain)}

\* what one GET can end in: a response whose body is read, a response
\* whose body cannot be read, a network error, the 30 s timeout
Responses(url) ==
    {[kind |-> "response", status |-> 200, contentType |-> ct, body |-> b] :
        ct \in ContentTypes, b \in Bodies(url)}
    \cup {[kind |-> "response", status |-> s, contentType |-> Absent, body |-> EmptyBody] :
             s \in {404, 500}}
    \cup {[kind |-> k, status |-> 200, contentType |-> Absent, body |-> EmptyBody] :
             k \in {"bodyError", "networkError", "timeout"}}

\* ------------------------------------------------------------------------
\* State
\* ------------------------------------------------------------------------
VARIABLES
    input,      \* the arguments of a function applied on its own
    output,     \* its value, once applied
    apiKey,     \* env.NCBI_API_KEY
    cache,      \* caches.default: cache URL -> stored {xml?, text?} object
    live,       \* the request handlers that run
    pc,         \* where each handler is: idle, match, fetch, put, sleep, done
    req,        \* the request body a handler works on
    call,       \* the fetch its operation asked for, parameters as built
    params,     \* the caller's urlParams object, which fetchWithRetry works on
    cacheKey,   \* the local cacheKey of fetchWithRetry
    attempt,    \* the loop variable of fetchWithRetry
    gets,       \* the number of GETs issued for the current fetch
    sent,       \* the URLs of those GETs
    slept,      \* the backoff sleeps of the current fetch, in ms, in order
    lastStatus, \* the status of the latest response of the current fetch
    lastContentType, \* the content-type header of that response
    lastError,  \* the error caught by the latest failed attempt
    result,     \* the local result of fetchWithRetry, awaiting cache.put
    puts,       \* the number of cache entries written by the current fetch
    outcome,    \* what fetchWithRetry gave the operation
    resp        \* the HTTP response of the handler

vars ==
    <<input, output, apiKey, cache, live, pc, req, call, params, cacheKey, attempt, gets,
      sent, slept, lastStatus, lastContentType, lastError, result, puts, outcome, resp>>

fetchVars ==
    <<params, cacheKey, attempt, gets, sent, slept, lastStatus, lastContentType,
      lastError, result, puts, outcome>>

IdleState ==
    /\ pc = [p \in Procs |-> "idle"]
    /\ req = [p \in Procs |-> Absent]
    /\ call = [p \in Procs |-> Absent]
    /\ params = [p \in Procs |-> <<>>]
    /\ cacheKey = [p \in Procs |-> <<>>]
    /\ attempt = [p \in Procs |-> 0]
    /\ gets = [p \in Procs |-> 0]
    /\ sent = [p \in Procs |-> {}]
    /\ slept = [p \in Procs |-> <<>>]
    /\ lastStatus = [p \in Procs |-> Absent]
    /\ lastContentType = [p \in Procs |-> Absent]
    /\ lastError = [p \in Procs |-> Absent]
    /\ result = [p \in Procs |-> Absent]
    /\ puts = [p \in Procs |-> 0]
    /\ outcome = [p \in Procs |-> Absent]
    /\ resp = [p \in Procs |-> Absent]

NoInput == [fn |-> "none"]

Init ==
    /\ input = NoInput
    /\ output = Absent
    /\ apiKey \in ApiKeys
    /\ cache = [k \in {} |-> EmptyPayload]
    /\ live = {1}
    /\ IdleState

\* ------------------------------------------------------------------------
\* handleMCPRequest, handleMCP
\* ------------------------------------------------------------------------
\* a catalogue that leaves out one of the routed operations
TOOLS_WithoutCitations ==
    <<"search_articles", "get_article_details", "search_by_compound",
      "search_clinical_trials", "search_by_author", "advanced_boolean_search">>

\* the names of the TOOLS catalogue, in order
TOOLS ==
    <<"search_articles", "get_article_details", "search_by_compound",
      "search_clinical_trials", "search_by_author", "advanced_boolean_search",
      "get_article_citations">>

Respond(response) == [kind |-> "respond", response |-> response]

\* a protocol failure answered with an empty result
CaughtInHandleMCP_EmptyResult(id, message) ==
    Respond(jsonResponse(ToolEnvelope(id, ListValue(<<>>)), 200))

\* the catch clause of handleMCP, lines 992-1001
CaughtInHandleMCP(id, message) ==
    Respond(jsonResponse(ErrorEnvelope(id, -32603, message), 200))

\* handleMCP up to the first await of a tool operation: the response, or
\* the fetch the routed operation asks for
handleMCP(r, currentYear) ==
    LET method == r.method
        toolName == IF r.params = Absent THEN Absent ELSE The(r.params).name
        toolParams == IF r.params = Absent THEN NoArgs
                      ELSE OrElse(The(r.params).arguments, NoArgs)
    IN  IF method = Some("initialize")
        THEN Respond(jsonResponse(
                 ResultEnvelope(r.id, [kind |-> "serverInfo",
                                       protocolVersion |-> "2024-11-05"]), 200))
        ELSE IF method = Some("tools/list")
        THEN Respond(jsonResponse(
                 ResultEnvelope(r.id, [kind |-> "tools", tools |-> TOOLS]), 200))
        ELSE IF method = Some("tools/call")
        THEN IF toolName # Absent /\ The(toolName) \in ToolNames
             THEN LET c == ToolCall(The(toolName), toolParams, currentYear)
                  IN  IF c.kind = "return"
                      THEN Respond(jsonResponse(ToolEnvelope(r.id, c.value), 200))
                      ELSE c
             ELSE CaughtInHandleMCP(r.id, "Unknown tool")
        ELSE CaughtInHandleMCP(r.id, "Unknown method")

\* handleMCPRequest up to the first await of a tool operation.  request.json()
\* rejects on a body that is not JSON; destructuring the JSON value null at
\* line 911 throws outside the try of handleMCP; both reach the catch clause.
handleMCPRequest(r, currentYear) ==
    IF r.body = "unparseable"
    THEN Respond(jsonResponse(ErrorEnvelope(Absent, -32700, "Parse error"), 400))
    ELSE IF r.body = "null"
    THEN Respond(jsonResponse(ErrorEnvelope(Absent, -32700, "TypeError"), 400))
    ELSE handleMCP(r, currentYear)

\* the arguments and tool name of the tools/call a handler works on
ToolNameOf(r) == The(The(r.params).name)
ToolArgsOf(r) == OrElse(The(r.params).arguments, NoArgs)

\* ------------------------------------------------------------------------
\* fetchWithRetry
\* ------------------------------------------------------------------------
\* the injection without the test for the empty string
InjectApiKey_AnyString(p0, key) ==
    IF key # Absent THEN SetProp(p0, n_api_key, The(key)) ELSE p0

\* lines 259-262: params.api_key = apiKey when the key is set and not empty
InjectApiKey(p0, key) ==
    IF key # Absent /\ Len(The(key)) > 0
    THEN SetProp(p0, n_api_key, The(key)) ELSE p0

\* a lookup that never finds the entry
CacheMatchEntry_Miss(c, cacheUrl) == Absent

\* await cache.match(cacheUrl): the stored entry, if any
CacheMatchEntry(c, cacheUrl) ==
    IF cacheUrl \in DOMAIN c THEN Some(c[cacheUrl]) ELSE Absent

\* a store that merges the new object into the entry it already holds
CachePutEntry_Merged(c, cacheUrl, entry) ==
    [u \in DOMAIN c \cup {cacheUrl} |->
        IF u # cacheUrl THEN c[u]
        ELSE IF u \notin DOMAIN c THEN entry
        ELSE [body |-> [xml |-> IF entry.body.xml # Absent THEN entry.body.xml
                                ELSE c[u].body.xml,
                        text |-> IF entry.body.text # Absent THEN entry.body.text
                                 ELSE c[u].body.text],
              maxAge |-> entry.maxAge]]

\* await cache.put(cacheUrl, cacheResponse)
CachePutEntry(c, cacheUrl, entry) ==
    [u \in DOMAIN c \cup {cacheUrl} |-> IF u = cacheUrl THEN entry ELSE c[u]]

\* 404 handled as every other status
IsNotFound_Never(status) == FALSE

\* response.status === 404
IsNotFound(status) == status = 404

\* response.ok
IsOk(status) == status \in 200..299

\* the last-attempt test off by one: attempt === MAX_RETRIES
IsLastAttempt_OffByOne(i) == i = MAX_RETRIES

\* attempt === MAX_RETRIES - 1
IsLastAttempt(i) == i = MAX_RETRIES - 1

\* an error object, with the 0-based attempt that raised it
Err(kind, status, i) == [kind |-> kind, status |-> status, attempt |-> i]

\* an operation without its try/catch: the failure reaches handleMCP
Conclude_NoCatch(p, o) ==
    /\ pc' = [pc EXCEPT ![p] = "done"]
    /\ outcome' = [outcome EXCEPT ![p] = Some(o)]
    /\ resp' = [resp EXCEPT ![p] =
           IF o.kind = "throw"
           THEN Some(jsonResponse(
                    ErrorEnvelope(The(req[p]).id, -32603, "Internal error"), 200))
           ELSE Some(jsonResponse(
                    ToolEnvelope(The(req[p]).id,
                                 ToolReturn(ToolNameOf(The(req[p])),
                                            ToolArgsOf(The(req[p])), o)), 200))]

\* the operation resumes with what fetchWithRetry gave it, and handleMCP
\* wraps the operation's value
Conclude(p, o) ==
    /\ pc' = [pc EXCEPT ![p] = "done"]
    /\ outcome' = [outcome EXCEPT ![p] = Some(o)]
    /\ resp' = [resp EXCEPT ![p] =
           Some(jsonResponse(
               ToolEnvelope(The(req[p]).id,
                            ToolReturn(ToolNameOf(The(req[p])),
                                       ToolArgsOf(The(req[p])), o)), 200))]

\* a catch clause whose backoff promise is never resolved
Caught_SleepNeverResolves(p, e) ==
    /\ lastError' = [lastError EXCEPT ![p] = Some(e)]
    /\ IF IsLastAttempt(attempt[p])
       THEN Conclude(p, Thrown(e))
       ELSE /\ pc' = [pc EXCEPT ![p] = "asleep"]
            /\ UNCHANGED <<outcome, resp>>

\* the catch clause of the retry loop, lines 325-335
Caught(p, e) ==
    /\ lastError' = [lastError EXCEPT ![p] = Some(e)]
    /\ IF IsLastAttempt(attempt[p])
       THEN Conclude(p, Thrown(e))
       ELSE /\ pc' = [pc EXCEPT ![p] = "sleep"]
            /\ UNCHANGED <<outcome, resp>>

\* the model admits a fetch only while the store, with the entry the fetch
\* may write, stays within MaxCacheEntries entries
CacheHasRoom(cacheUrl) ==
    \/ cacheUrl \in DOMAIN cache
    \/ Cardinality(DOMAIN cache) + Cardinality({q \in Procs : pc[q] \in {"match", "fetch", "put", "sleep"}})
           < MaxCacheEntries

\* a POST to /mcp arrives: handleMCPRequest runs up to the await of
\* cache.match in fetchWithRetry, or to its response
ReceiveFrom(p, requests) ==
    /\ p \in live
    /\ pc[p] = "idle"
    /\ \E r \in requests, currentYear \in CurrentYears :
         LET d == handleMCPRequest(r, currentYear)
         IN  /\ req' = [req EXCEPT ![p] = Some(r)]
             /\ IF d.kind = "fetch"
                THEN LET withKey == InjectApiKey(d.params, apiKey)
                     IN  /\ CacheHasRoom(CacheUrl(getCacheKey(d.url, withKey)))
                         /\ call' = [call EXCEPT ![p] = Some(d)]
                         /\ params' = [params EXCEPT ![p] = withKey]
                         /\ cacheKey' = [cacheKey EXCEPT ![p] =
                                getCacheKey(d.url, withKey)]
                         /\ pc' = [pc EXCEPT ![p] = "match"]
                         /\ UNCHANGED resp
                ELSE /\ resp' = [resp EXCEPT ![p] = Some(d.response)]
                     /\ pc' = [pc EXCEPT ![p] = "done"]
                     /\ UNCHANGED <<call, params, cacheKey>>
    /\ UNCHANGED <<input, output, apiKey, cache, live, attempt, gets, sent, slept, lastStatus,
                   lastContentType, lastError, result, puts, outcome>>

Receive(p) == ReceiveFrom(p, Requests)

\* cache.match resolves: lines 267-276
CacheMatch(p) ==
    /\ pc[p] = "match"
    /\ LET cachedResponse == CacheMatchEntry(cache, CacheUrl(cacheKey[p]))
       IN  IF cachedResponse # Absent
           THEN Conclude(p, Returned(JsonRoundTrip(The(cachedResponse).body)))
           ELSE /\ pc' = [pc EXCEPT ![p] = "fetch"]
                /\ UNCHANGED <<outcome, resp>>
    /\ UNCHANGED <<input, output, apiKey, cache, live, req, call, params, cacheKey, attempt,
                   gets, sent, slept, lastStatus, lastContentType, lastError, result,
                   puts>>

\* one GET of the retry loop ends: lines 280-312 and the catch clause
Attempt(p) ==
    /\ pc[p] = "fetch"
    /\ gets' = [gets EXCEPT ![p] = @ + 1]
    /\ sent' = [sent EXCEPT ![p] = @ \cup {FullUrl(The(call[p]).url, params[p])}]
    /\ \E rsp \in Responses(The(call[p]).url) :
         /\ lastStatus' = [lastStatus EXCEPT ![p] =
                IF rsp.kind \in {"response", "bodyError"}
                THEN Some(rsp.status) ELSE Absent]
         /\ lastContentType' = [lastContentType EXCEPT ![p] =
                IF rsp.kind \in {"response", "bodyError"}
                THEN rsp.contentType ELSE Absent]
         /\ IF rsp.kind \in {"networkError", "timeout"}
            THEN Caught(p, Err(rsp.kind, 0, attempt[p])) /\ UNCHANGED result
            ELSE IF IsNotFound(rsp.status)
            THEN /\ Conclude(p, Returned(EmptyPayload))
                 /\ UNCHANGED <<lastError, result>>
            ELSE IF ~IsOk(rsp.status)
            THEN Caught(p, Err("http", rsp.status, attempt[p])) /\ UNCHANGED result
            ELSE IF rsp.kind = "bodyError"
            THEN Caught(p, Err("body", 0, attempt[p])) /\ UNCHANGED result
            ELSE /\ result' = [result EXCEPT ![p] =
                        Some(ClassifyResponse(rsp.contentType, rsp.body))]
                 /\ pc' = [pc EXCEPT ![p] = "put"]
                 /\ UNCHANGED <<lastError, outcome, resp>>
    /\ UNCHANGED <<input, output, apiKey, cache, live, req, call, params, cacheKey, attempt,
                   slept, puts>>

\* cache.put resolves or rejects: lines 314-323 and the catch clause
CachePut(p) ==
    /\ pc[p] = "put"
    /\ \E stored \in BOOLEAN :
         IF stored
         THEN /\ cache' = CachePutEntry(cache, CacheUrl(cacheKey[p]),
                              [body |-> JsonRoundTrip(The(result[p])),
                               maxAge |-> CACHE_TTL])
              /\ puts' = [puts EXCEPT ![p] = @ + 1]
              /\ Conclude(p, Returned(The(result[p])))
              /\ UNCHANGED lastError
         ELSE /\ Caught(p, Err("cache", 0, attempt[p]))
              /\ UNCHANGED <<cache, puts>>
    /\ UNCHANGED <<input, output, apiKey, live, req, call, params, cacheKey, attempt, gets,
                   sent, slept, lastStatus, lastContentType, result>>

\* the backoff timer fires: lines 332-334, then attempt++ and the loop test
Backoff(p) ==
    /\ pc[p] = "sleep"
    /\ slept' = [slept EXCEPT ![p] = Append(@, BackoffMs(attempt[p]))]
    /\ attempt' = [attempt EXCEPT ![p] = @ + 1]
    /\ IF attempt[p] + 1 < MAX_RETRIES
       THEN /\ pc' = [pc EXCEPT ![p] = "fetch"]
            /\ UNCHANGED <<outcome, resp>>
       ELSE Conclude(p, Returned(EmptyPayload))
    /\ UNCHANGED <<input, output, apiKey, cache, live, req, call, params, cacheKey, gets,
                   sent, lastStatus, lastContentType, lastError, result, puts>>

\* the response is sent and the handler ends
Deliver(p) ==
    /\ pc[p] = "done"
    /\ pc' = [pc EXCEPT ![p] = "idle"]
    /\ req' = [req EXCEPT ![p] = Absent]
    /\ call' = [call EXCEPT ![p] = Absent]
    /\ params' = [params EXCEPT ![p] = <<>>]
    /\ cacheKey' = [cacheKey EXCEPT ![p] = <<>>]
    /\ attempt' = [attempt EXCEPT ![p] = 0]
    /\ gets' = [gets EXCEPT ![p] = 0]
    /\ sent' = [sent EXCEPT ![p] = {}]
    /\ slept' = [slept EXCEPT ![p] = <<>>]
    /\ lastStatus' = [lastStatus EXCEPT ![p] = Absent]
    /\ lastContentType' = [lastContentType EXCEPT ![p] = Absent]
    /\ lastError' = [lastError EXCEPT ![p] = Absent]
    /\ result' = [result EXCEPT ![p] = Absent]
    /\ puts' = [puts EXCEPT ![p] = 0]
    /\ outcome' = [outcome EXCEPT ![p] = Absent]
    /\ resp' = [resp EXCEPT ![p] = Absent]
    /\ UNCHANGED <<input, output, apiKey, cache, live>>

\* the cache store drops an entry: expiry after max-age, or eviction
Expire(cacheUrl) ==
    /\ cacheUrl \in DOMAIN cache
    /\ cache' = [u \in DOMAIN cache \ {cacheUrl} |-> cache[u]]
    /\ UNCHANGED <<input, output, apiKey, live, pc, req, call, fetchVars, resp>>

Next ==
    \/ \E p \in Procs : Receive(p)
    \/ \E p \in Procs : CacheMatch(p)
    \/ \E p \in Procs : Attempt(p)
    \/ \E p \in Procs : CachePut(p)
    \/ \E p \in Procs : Backoff(p)
    \/ \E p \in Procs : Deliver(p)
    \/ \E cacheUrl \in DOMAIN cache : Expire(cacheUrl)

Spec == Init /\ [][Next]_vars

\* ------------------------------------------------------------------------
\* Two request handlers in flight over the one cache store
\* ------------------------------------------------------------------------
InitConc ==
    /\ input = NoInput
    /\ output = Absent
    /\ apiKey = Absent
    /\ cache = [k \in {} |-> EmptyPayload]
    /\ live = Procs
    /\ IdleState

\* handler 1 serves search_articles and handler 2 advanced_boolean_search,
\* with the same query: both ask the same upstream request
ReceiveConc(p) ==
    ReceiveFrom(p, {Request("object", Some("tools/call"),
                            Some([name |-> Some(IF p = 1 THEN "search_articles"
                                                ELSE "advanced_boolean_search"),
                                  arguments |->
                                      Some([NoArgs EXCEPT !.query = Some(Q1)])]))})

NextConc ==
    \/ \E p \in Procs : ReceiveConc(p)
    \/ \E p \in Procs : CacheMatch(p)
    \/ \E p \in Procs : Attempt(p)
    \/ \E p \in Procs : CachePut(p)
    \/ \E p \in Procs : Backoff(p)
    \/ \E p \in Procs : Deliver(p)
    \/ \E cacheUrl \in DOMAIN cache : Expire(cacheUrl)

SpecConc == InitConc /\ [][NextConc]_vars

\* one handler serving search_articles, every await of which settles:
\* cache.match and cache.put resolve or reject, a GET ends by a response, an
\* error or the abort after TIMEOUT_MS, and the timer of a backoff sleep fires
SpecLive ==
    /\ Init
    /\ [][NextConc]_vars
    /\ WF_vars(\E p \in Procs :
                  CacheMatch(p) \/ Attempt(p) \/ CachePut(p) \/ Backoff(p))

\* ------------------------------------------------------------------------
\* getCacheKey applied on its own
\* ------------------------------------------------------------------------
MaxParams == 3

KeyUrls == {EUTILS_BASE \o ESEARCH_PATH, EUTILS_BASE \o ELINK_PATH}
KeyNames == {n_db, n_dbfrom, n_api_key, n_term, <<"Z">>}
KeyValues == {<<"1">>, <<"a", "&", "b">>, <<"1", "&", "d", "b", "=", "1">>}

\* the objects with n properties, in every insertion order
RECURSIVE ParamObjects(_)
ParamObjects(n) ==
    IF n = 0 THEN {<<>>}
    ELSE {Append(o, Prop(k, v)) :
             o \in {q \in ParamObjects(n - 1) : Len(q) = n - 1},
             k \in KeyNames, v \in KeyValues}

DistinctNames(o) == \A i, j \in 1..Len(o) : o[i].name = o[j].name => i = j

InitKey ==
    /\ input \in {[fn |-> "getCacheKey", url |-> u, params |-> o] :
                    u \in KeyUrls,
                    o \in {q \in UNION {ParamObjects(n) : n \in 0..MaxParams} :
                              DistinctNames(q)}}
    /\ output = Absent
    /\ apiKey = Absent
    /\ cache = [k \in {} |-> EmptyPayload]
    /\ live = {}
    /\ IdleState

ApplyGetCacheKey ==
    /\ input.fn = "getCacheKey"
    /\ output = Absent
    /\ output' = Some(getCacheKey(input.url, input.params))
    /\ UNCHANGED <<input, apiKey, cache, live, pc, req, call, fetchVars, resp>>

NextKey == ApplyGetCacheKey

SpecKey == InitKey /\ [][NextKey]_vars

\* ------------------------------------------------------------------------
\* The operations and the decoders applied on their own
\* ------------------------------------------------------------------------
MaxPmids == 201
MaxLinks == 3
MaxArticles == 3

InitOps ==
    LET Seqs(S, n) == UNION {[1..k -> S] : k \in 0..n}
        queries == {<<>>, Q1, Q2, <<" ", "a", " ">>,
                    <<"a", "[", "T", "i", "t", "l", "e", "]", " ", "A", "N", "D", " ",
                      "\"", "b", " ", "c", "\"", "[", "M", "e", "S", "H", "]", " ",
                      "N", "O", "T", " ", "d", "&", "e", "=", "f", "+", "%", "2", "0">>}
        pmidLists == {[i \in 1..n |-> NumberToString(i)] :
                         n \in {0, 1, 2, 200, MaxPmids}}
        linkLists == Seqs({Id(<<"1">>, TRUE), Id(<<"2">>, TRUE), Id(<<"2">>, FALSE)},
                          MaxLinks)
        countTexts == {Absent, Some(<<>>), Some(<<"3">>), Some(<<"0">>),
                       Some(<<"a", "b", "c">>), Some(<<"-", "5">>),
                       Some(<<"1", "2", "a">>), Some(<<" ", "7">>)}
        authors == {<<>>, <<[LastName |-> Some(<<"D">>), ForeName |-> Some(<<"J">>)]>>,
                    <<[LastName |-> Absent, ForeName |-> Some(<<"J">>)],
                      [LastName |-> Some(<<"E">>), ForeName |-> Absent]>>}
        articleIds == {<<>>, <<[IdType |-> Some("doi"), text |-> <<"1", "0", ".", "1">>]>>,
                       <<[IdType |-> Some("pubmed"), text |-> <<"7">>]>>}
        elements == {[PMID |-> pm, ArticleTitle |-> t, Authors |-> au,
                      JournalTitle |-> j, Year |-> y, Month |-> m,
                      AbstractTexts |-> ab, ArticleIds |-> ids, raises |-> FALSE] :
                        pm \in {Absent, Some(<<"7">>)}, t \in {Absent, Some(<<"T">>)},
                        j \in {Absent, Some(<<"J">>)},
                        y \in {Absent, Some(<<"2", "0", "2", "0">>)},
                        m \in {Absent, Some(<<"M", "a", "r">>)}, au \in authors,
                        ab \in {<<>>, <<<<"X">>, <<>>, <<"Y">>>>}, ids \in articleIds}
        numbered == {[EFetchDoc.Articles[1] EXCEPT !.PMID = pm, !.raises = r] :
                        pm \in {Absent, Some(<<"7">>), Some(<<"8">>)}, r \in BOOLEAN}
        articleLists == {<<e>> : e \in elements} \cup Seqs(numbered, MaxArticles)
    IN  /\ \/ input \in {[fn |-> "ToolCall", name |-> "advanced_boolean_search",
                           args |-> [NoArgs EXCEPT !.query = Some(q),
                                                   !.max_results = m, !.sort_by = o]] :
                            q \in queries, m \in {Absent, Some(5)},
                            o \in {Absent, Some("date")}}
           \/ input \in {[fn |-> "ToolCall", name |-> "get_article_details",
                           args |-> [NoArgs EXCEPT !.pmids = l, !.include_abstract = i]] :
                            l \in {Absent, NotAnArray}
                                  \cup {PmidArray(items) : items \in pmidLists},
                            i \in {Absent, Some(TRUE), Some(FALSE)}}
           \/ input \in {[fn |-> "ToolReturn", name |-> "get_article_citations",
                           args |-> [NoArgs EXCEPT !.pmid = Some(<<"7">>),
                                                   !.max_results = m],
                           outcome |-> Returned([xml |-> Some(Body([NoDoc EXCEPT !.Ids = l])),
                                                 text |-> Absent])] :
                            m \in {Absent, Some(500)}
                                  \cup {Some(k) : k \in (0 - 2)..(MaxLinks + 1)},
                            l \in linkLists}
           \/ input \in {[fn |-> "parseESearchXML",
                           body |-> Body([NoDoc EXCEPT !.Count = c, !.Ids = l,
                                                       !.QueryTranslation = t])] :
                            c \in countTexts, l \in Seqs({Id(<<"7">>, FALSE)}, 2),
                            t \in {Absent, Some(Q1)}}
           \/ input \in {[fn |-> "parseEFetchXML",
                           body |-> Body([NoDoc EXCEPT !.Articles = l])] :
                            l \in articleLists}
        /\ output = Absent
        /\ apiKey = Absent
        /\ cache = [k \in {} |-> EmptyPayload]
        /\ live = {}
        /\ IdleState

\* the operation of a tools/call up to its fetch: lines 948-969
ApplyToolCall ==
    /\ input.fn = "ToolCall"
    /\ output = Absent
    /\ \E currentYear \in CurrentYears :
           output' = Some(ToolCall(input.name, input.args, currentYear))
    /\ UNCHANGED <<input, apiKey, cache, live, pc, req, call, fetchVars, resp>>

\* the operation of a tools/call from its fetch on
ApplyToolReturn ==
    /\ input.fn = "ToolReturn"
    /\ output = Absent
    /\ output' = Some(ToolReturn(input.name, input.args, input.outcome))
    /\ UNCHANGED <<input, apiKey, cache, live, pc, req, call, fetchVars, resp>>

ApplyParseESearchXML ==
    /\ input.fn = "parseESearchXML"
    /\ output = Absent
    /\ output' = Some(parseESearchXML(input.body))
    /\ UNCHANGED <<input, apiKey, cache, live, pc, req, call, fetchVars, resp>>

ApplyParseEFetchXML ==
    /\ input.fn = "parseEFetchXML"
    /\ output = Absent
    /\ output' = Some(parseEFetchXML(input.body))
    /\ UNCHANGED <<input, apiKey, cache, live, pc, req, call, fetchVars, resp>>

NextOps ==
    \/ ApplyToolCall
    \/ ApplyToolReturn
    \/ ApplyParseESearchXML
    \/ ApplyParseEFetchXML

SpecOps == InitOps /\ [][NextOps]_vars

\* ------------------------------------------------------------------------
\* Properties
\* ------------------------------------------------------------------------
\* the handlers that work on a tools/call routed to one of the 7 operations
KnownTools ==
    {"search_articles", "get_article_details", "search_by_compound",
     "search_clinical_trials", "search_by_author", "advanced_boolean_search",
     "get_article_citations"}

IsToolCall(p) ==
    /\ req[p] # Absent
    /\ The(req[p]).body = "object"
    /\ The(req[p]).method = Some("tools/call")
    /\ The(req[p]).params # Absent
    /\ The(The(req[p]).params).name # Absent
    /\ The(The(The(req[p]).params).name) \in KnownTools

ToolOf(p) == The(The(The(req[p]).params).name)
ArgsOf(p) == OrElse(The(The(req[p]).params).arguments, NoArgs)

\* the empty value of an operation's result type
EmptyValue(tool) ==
    IF tool \in {"get_article_details", "get_article_citations"}
    THEN [kind |-> "Array", v |-> <<>>]
    ELSE [kind |-> "SearchResult",
          v |-> [count |-> [nan |-> FALSE, val |-> 0], pmids |-> <<>>,
                 query_translation |-> <<>>]]

\* the value inside the result envelope of a finished tools/call
ToolValue(p) == The(The(resp[p]).data.result).value

IsResultEnvelope(p) ==
    /\ resp[p] # Absent
    /\ The(resp[p]).data.error = Absent
    /\ The(resp[p]).data.result # Absent

IsErrorEnvelope(p, code) ==
    /\ resp[p] # Absent
    /\ The(resp[p]).data.result = Absent
    /\ The(resp[p]).data.error # Absent
    /\ The(The(resp[p]).data.error).code = code

FetchReturned(p) == outcome[p] # Absent /\ The(outcome[p]).kind = "payload"
FetchThrew(p) == outcome[p] # Absent /\ The(outcome[p]).kind = "throw"

\* C1: when cache.match resolves and the store holds an entry under the
\* cache key of (url, params with the injected API key), the fetch ends in
\* that step, no GET was or is issued, nothing is written, and the payload
\* returned is the stored one.
C1_CacheHitShortCircuits ==
    [][\A p \in Procs :
          (/\ pc[p] = "match"
           /\ pc'[p] # "match"
           /\ CacheUrl(cacheKey[p]) \in DOMAIN cache)
          => /\ cacheKey[p] = getCacheKey(The(call[p]).url, params[p])
             /\ pc'[p] = "done"
             /\ gets[p] = 0 /\ gets'[p] = 0 /\ sent'[p] = {}
             /\ cache' = cache
             /\ outcome'[p] =
                    Some([kind |-> "payload",
                          payload |-> cache[CacheUrl(cacheKey[p])].body])]_vars

C1_Witness ==
    \E p \in Procs :
        /\ pc[p] = "done" /\ FetchReturned(p)
        /\ gets[p] = 0
        /\ The(outcome[p]).payload.xml # Absent
        /\ CacheUrl(cacheKey[p]) \in DOMAIN cache
        /\ The(outcome[p]).payload = cache[CacheUrl(cacheKey[p])].body

\* C2: a fetch issues at most 3 GETs; when the 3rd attempt fails the fetch
\* throws the error of that attempt, and when it throws, all 3 attempts were
\* made, it wrote no cache entry and the store has none under its key.
C2_RetryCeiling ==
    \A p \in Procs :
        /\ gets[p] <= 3
        /\ attempt[p] <= 2
        /\ (pc[p] = "done" /\ gets[p] = 3 /\ lastError[p] # Absent
               /\ The(lastError[p]).attempt = 2)
           => (FetchThrew(p) /\ The(outcome[p]).error = The(lastError[p]))
        /\ FetchThrew(p)
           => /\ gets[p] = 3
              /\ The(outcome[p]).error.attempt = 2
              /\ puts[p] = 0
              /\ CacheUrl(cacheKey[p]) \notin DOMAIN cache

C2_Witness ==
    \E p \in Procs :
        /\ pc[p] = "done" /\ FetchThrew(p) /\ gets[p] = 3
        /\ The(outcome[p]).error.kind = "http"

C4_NotFoundIsEmpty ==
    \A p \in Procs :
        lastStatus[p] = Some(404)
        => /\ pc[p] = "done"
           /\ outcome[p] = Some([kind |-> "payload",
                                 payload |-> [xml |-> {}, text |-> {}]])
           /\ Len(slept[p]) = gets[p] - 1
           /\ puts[p] = 0
           /\ IsResultEnvelope(p)
           /\ ToolValue(p) = EmptyValue(ToolOf(p))

C4_Witness ==
    \E p \in Procs :
        /\ lastStatus[p] = Some(404) /\ pc[p] = "done"
        /\ ToolOf(p) = "get_article_details"
        /\ ToolValue(p) = [kind |-> "Array", v |-> <<>>]

\* C5: a finished tools/call that names one of the 7 tools carries a result
\* envelope, never an error envelope; when the fetch threw, or gave no XML,
\* the value is the empty value of the operation's type.
C5_OperationsNeverRaise ==
    \A p \in Procs :
        (pc[p] = "done" /\ IsToolCall(p))
        => /\ IsResultEnvelope(p)
           /\ The(resp[p]).status = 200
           /\ The(resp[p]).data.id = The(req[p]).id
           /\ (\/ FetchThrew(p)
               \/ call[p] = Absent
               \/ FetchReturned(p) /\ The(outcome[p]).payload.xml = Absent)
              => ToolValue(p) = EmptyValue(ToolOf(p))

C5_Witness ==
    \E p \in Procs :
        /\ pc[p] = "done" /\ IsToolCall(p) /\ FetchThrew(p)
        /\ ToolOf(p) = "get_article_citations"
        /\ IsResultEnvelope(p)
        /\ ToolValue(p) = EmptyValue(ToolOf(p))

\* C6 (as claimed): every operation that accepts max_results uses a limit
\* clamped to [1,100].
C6_EveryLimitClamped ==
    \A p \in Procs :
        (IsToolCall(p) /\ call[p] # Absent /\ The(call[p]).limit # Absent)
        => LET m == OrElse(ArgsOf(p).max_results,
                           IF ToolOf(p) \in {"search_by_author", "get_article_citations"}
                           THEN 50 ELSE 20)
           IN  The(The(call[p]).limit) =
                   (IF m < 1 THEN 1 ELSE IF m > 100 THEN 100 ELSE m)

\* C7 (as claimed): the pmids of every SearchResult are at most the
\* requested max_results and at most 100, whatever the payload holds.
C7_ResultWithinRequestedMax ==
    \A p \in Procs :
        (pc[p] = "done" /\ IsToolCall(p) /\ IsResultEnvelope(p)
            /\ ToolValue(p).kind = "SearchResult")
        => LET m == OrElse(ArgsOf(p).max_results,
                           IF ToolOf(p) = "search_by_author" THEN 50 ELSE 20)
           IN  /\ Len(ToolValue(p).v.pmids) <= m
               /\ Len(ToolValue(p).v.pmids) <= 100

\* the orderings of the entries of an object
Reorderings(o) ==
    {[i \in 1..Len(o) |-> o[f[i]]] :
        f \in {g \in [1..Len(o) -> 1..Len(o)] :
                  \A i, j \in 1..Len(o) : g[i] = g[j] => i = j}}

\* C8: the key of an object is the key of each of its reorderings, and it
\* is "pubmed:", the url, ":" and the name=value pairs in ascending order
\* of name, joined with "&".
C8_KeyIgnoresOrder ==
    (input.fn = "getCacheKey" /\ output # Absent)
    => /\ \A o \in Reorderings(input.params) :
             getCacheKey(input.url, o) = The(output)
       /\ \E o \in Reorderings(input.params) :
             /\ \A i \in 1..(Len(o) - 1) : StrLess(o[i].name, o[i + 1].name)
             /\ The(output) =
                    KEY_PREFIX \o input.url \o <<":">>
                        \o Join([i \in 1..Len(o) |->
                                    o[i].name \o <<"=">> \o o[i].value], <<"&">>)

C8_Witness ==
    /\ input.fn = "getCacheKey" /\ output # Absent
    /\ Len(input.params) = 3
    /\ StrLess(input.params[3].name, input.params[1].name)
    /\ StrLess(input.params[1].name, input.params[2].name)

\* C9: an unknown method and an unknown tool name are answered with an
\* error envelope of code -32603 that carries the request id, and a body
\* that is not JSON with an error envelope of code -32700 and status 400;
\* none of them with a result.
C9_ProtocolFailuresAreErrors ==
    \A p \in Procs :
        (pc[p] = "done" /\ req[p] # Absent)
        => LET r == The(req[p])
               unknownMethod ==
                   r.body = "object"
                   /\ r.method \notin {Some("initialize"), Some("tools/list"),
                                       Some("tools/call")}
               unknownTool ==
                   r.body = "object" /\ r.method = Some("tools/call")
                   /\ ~IsToolCall(p)
           IN  /\ (unknownMethod \/ unknownTool)
                  => (IsErrorEnvelope(p, -32603)
                      /\ The(resp[p]).data.id = r.id)
               /\ r.body = "unparseable"
                  => (IsErrorEnvelope(p, -32700) /\ The(resp[p]).status = 400)

C9_Witness ==
    \E p \in Procs :
        /\ pc[p] = "done" /\ req[p] # Absent
        /\ The(req[p]).method = Some("tools/call")
        /\ The(req[p]).params # Absent
        /\ The(The(req[p]).params).name = Some("delete_article")
        /\ IsErrorEnvelope(p, -32603)

\* C10: with a non-empty API key, the parameters of a fetch hold it under
\* api_key, and so do the cache key and the URL of every GET; with no key
\* or the empty string, none of them names api_key.
C10_ApiKeyInjection ==
    \A p \in Procs :
        call[p] # Absent
        => /\ gets[p] = 0 <=> sent[p] = {}
           /\ IF apiKey # Absent /\ The(apiKey) # <<>>
              THEN /\ HasProp(params[p], n_api_key)
                   /\ GetProp(params[p], n_api_key) = The(apiKey)
                   /\ Includes(cacheKey[p], n_api_key \o <<"=">> \o The(apiKey))
                   /\ \A u \in sent[p] :
                          Includes(u, n_api_key \o <<"=">> \o The(apiKey))
              ELSE /\ ~HasProp(params[p], n_api_key)
                   /\ ~Includes(cacheKey[p], n_api_key)
                   /\ \A u \in sent[p] : ~Includes(u, n_api_key)

C10_Witness ==
    \E p \in Procs :
        /\ apiKey = Some(<<"K", "9">>)
        /\ pc[p] = "done" /\ gets[p] >= 1
        /\ \A u \in sent[p] : Includes(u, <<"a", "p", "i", "_", "k", "e", "y", "=", "K", "9">>)

\* the content types whose lower-cased text contains "xml"
NamesXml(contentType) ==
    contentType \in {Some(<<"t", "e", "x", "t", "/", "x", "m", "l", ";", " ",
                            "c", "h", "a", "r", "s", "e", "t", "=", "U", "T", "F", "-", "8">>),
                     Some(<<"A", "p", "p", "l", "i", "c", "a", "t", "i", "o", "n", "/",
                            "X", "M", "L">>)}

\* C11: once a 2xx response is read, the result is {xml: body} if the
\* lower-cased content-type contains "xml" and {text: body} otherwise; the
\* step that returns that result stores exactly it under the cache URL of
\* the fetch's cache key with max-age 3600 and changes no other entry; no
\* other step changes an entry that is kept; and a cache.match that finds
\* the entry ends the fetch with the stored payload and no GET.
C11_ClassifyStoreThenHit ==
    [][\A p \in Procs :
         /\ (pc[p] = "fetch" /\ pc'[p] = "put")
            => /\ lastStatus'[p] = Some(200)
               /\ \E b \in Bodies(The(call[p]).url) :
                      result'[p] = Some(IF NamesXml(lastContentType'[p])
                                        THEN [xml |-> Some(b), text |-> Absent]
                                        ELSE [xml |-> Absent, text |-> Some(b)])
         /\ (pc[p] = "put" /\ pc'[p] = "done" /\ The(outcome'[p]).kind = "payload")
            => /\ The(outcome'[p]).payload = The(result[p])
               /\ CacheUrl(cacheKey[p]) \in DOMAIN cache'
               /\ cache'[CacheUrl(cacheKey[p])] =
                      [body |-> The(result[p]), maxAge |-> 3600]
               /\ \A u \in DOMAIN cache \ {CacheUrl(cacheKey[p])} :
                      u \in DOMAIN cache' /\ cache'[u] = cache[u]
         /\ (pc[p] = "match" /\ pc'[p] # "match"
             /\ CacheUrl(cacheKey[p]) \in DOMAIN cache)
            => /\ pc'[p] = "done" /\ gets'[p] = 0
               /\ The(outcome'[p]) =
                      [kind |-> "payload", payload |-> cache[CacheUrl(cacheKey[p])].body]
         /\ (\A q \in Procs : pc[q] = "put" => pc'[q] = "put")
            => \A u \in DOMAIN cache : u \in DOMAIN cache' => cache'[u] = cache[u]
      ]_vars

C11_Witness ==
    \E p \in Procs :
        /\ pc[p] = "done" /\ puts[p] = 1
        /\ lastContentType[p] = Some(ct_upper_xml)
        /\ FetchReturned(p)
        /\ The(outcome[p]).payload.xml # Absent
        /\ cache[CacheUrl(cacheKey[p])].body = The(outcome[p]).payload

\* an operation or decoder was applied on its own to an input of the kind
Applied(fn) == input.fn = fn /\ output # Absent

\* the example query of the catalogue's style, with quotes and reserved
\* characters of URLs
BooleanQuery ==
    <<"a", "[", "T", "i", "t", "l", "e", "]", " ", "A", "N", "D", " ",
      "\"", "b", " ", "c", "\"", "[", "M", "e", "S", "H", "]", " ",
      "N", "O", "T", " ", "d", "&", "e", "=", "f", "+", "%", "2", "0">>

\* C12: advanced_boolean_search asks ESearch with one term parameter whose
\* value is the query it was given, character for character, whatever the
\* query holds (spaces at the ends, brackets, quotes, #, &, =, +, %).
C12_QueryVerbatim ==
    (Applied("ToolCall") /\ input.name = "advanced_boolean_search")
    => /\ The(output).kind = "fetch"
       /\ The(output).url = EUTILS_BASE \o ESEARCH_PATH
       /\ Cardinality({i \in 1..Len(The(output).params) :
                          The(output).params[i].name = <<"t", "e", "r", "m">>}) = 1
       /\ \A i \in 1..Len(The(output).params) :
              The(output).params[i].name = <<"t", "e", "r", "m">>
              => The(output).params[i].value = The(input.args.query)

C12_Witness ==
    /\ Applied("ToolCall") /\ input.name = "advanced_boolean_search"
    /\ input.args.query = Some(BooleanQuery)
    /\ GetProp(The(output).params, n_term) = BooleanQuery

\* C13: get_article_details with n >= 1 identifiers fetches with id = the
\* first min(n, 200) of them, in order, joined by "," and rettype =
\* "medline" if include_abstract is false, "abstract" if it is true or
\* omitted; with no list or an empty one it returns [] and asks no fetch.
C13_DetailsRequest ==
    (Applied("ToolCall") /\ input.name = "get_article_details")
    => LET pmids == input.args.pmids
           items == The(pmids).items
           kept == Min(Len(items), 200)
       IN  IF pmids = Absent \/ (The(pmids).isArray /\ items = <<>>)
           THEN The(output) = [kind |-> "return",
                               value |-> [kind |-> "Array", v |-> <<>>]]
           ELSE The(pmids).isArray
                => /\ The(output).kind = "fetch"
                   /\ The(output).url = EUTILS_BASE \o EFETCH_PATH
                   /\ GetProp(The(output).params, n_id) =
                          Join(SubSeq(items, 1, kept), <<",">>)
                   /\ GetProp(The(output).params, n_rettype) =
                          IF input.args.include_abstract = Some(FALSE)
                          THEN <<"m", "e", "d", "l", "i", "n", "e">>
                          ELSE <<"a", "b", "s", "t", "r", "a", "c", "t">>

C13_Witness ==
    /\ Applied("ToolCall") /\ input.name = "get_article_details"
    /\ input.args.pmids # Absent
    /\ Len(The(input.args.pmids).items) > 200
    /\ input.args.include_abstract = Some(FALSE)
    /\ The(output).kind = "fetch"
    /\ Len(GetProp(The(output).params, n_id)) = 9 + 2 * 90 + 3 * 101 + 199
    /\ GetProp(The(output).params, n_rettype) = v_medline

\* the texts of the Id elements inside Link elements, in document order
LinkTexts(body) ==
    LET links == SelectSeq(body.doc.Ids, LAMBDA e : e.inLink /\ e.text # <<>>)
    IN  [i \in 1..Len(links) |-> links[i].text]

IsPrefix(s, t) == Len(s) <= Len(t) /\ s = SubSeq(t, 1, Len(s))

C15_CountNonNegative ==
    Applied("parseESearchXML")
    => LET text == input.body.doc.Count
           count == The(output).count
       IN  /\ ~count.nan
           /\ count.val >= 0
           /\ (text = Absent \/ The(text) = <<>>
               \/ ~(Head(The(text)) \in {"0", "1", "2", "3", "4", "5", "6", "7", "8", "9",
                                         " ", "-", "+"}))
              => count.val = 0

\* the text of an optional element, "" when the element is missing
TextOrEmpty(o) == IF o = Absent THEN <<>> ELSE The(o)

NoneRaises(body) == \A i \in 1..Len(body.doc.Articles) : ~body.doc.Articles[i].raises

\* C16: parseEFetchXML gives one record per PubmedArticle element whatever
\* subset of PMID, ArticleTitle, Journal Title, Year, Month, Author,
\* AbstractText and ArticleId is missing: pmid, title and journal are the
\* element's text or "", pub_date, abstract and doi are "" when their
\* elements are missing, authors is [] without Author elements; and a
\* document without any of the elements decodes to [], to {0, [], ""} and
\* to no citation.
C16_MissingElementsDefaulted ==
    /\ (Applied("parseEFetchXML") /\ NoneRaises(input.body))
       => LET es == input.body.doc.Articles
              rs == The(output)
          IN  /\ DOMAIN rs = 1..Len(es)
              /\ \A i \in 1..Len(es) :
                     /\ rs[i].pmid = TextOrEmpty(es[i].PMID)
                     /\ rs[i].title = TextOrEmpty(es[i].ArticleTitle)
                     /\ rs[i].journal = TextOrEmpty(es[i].JournalTitle)
                     /\ DOMAIN rs[i].authors = 1..Len(rs[i].authors)
                     /\ Len(rs[i].authors) <= Len(es[i].Authors)
                     /\ es[i].Month = Absent => rs[i].pub_date = TextOrEmpty(es[i].Year)
                     /\ es[i].AbstractTexts = <<>> => rs[i].abstract = <<>>
                     /\ (\A k \in 1..Len(es[i].ArticleIds) :
                            es[i].ArticleIds[k].IdType # Some("doi"))
                        => rs[i].doi = <<>>
    /\ (Applied("parseESearchXML") /\ input.body.doc = NoDoc)
       => The(output) = [count |-> [nan |-> FALSE, val |-> 0], pmids |-> <<>>,
                         query_translation |-> <<>>]
    /\ (Applied("ToolReturn") /\ input.name = "get_article_citations"
        /\ The(input.outcome.payload.xml).doc = NoDoc)
       => The(output).v = <<>>

C16_Witness ==
    /\ Applied("parseEFetchXML")
    /\ Len(input.body.doc.Articles) = 1
    /\ input.body.doc.Articles[1].ArticleTitle = Absent
    /\ input.body.doc.Articles[1].PMID # Absent
    /\ input.body.doc.Articles[1].Authors = <<>>
    /\ The(output) = <<[pmid |-> <<"7">>, title |-> <<>>, authors |-> <<>>,
                        journal |-> <<>>, pub_date |-> <<>>, abstract |-> <<>>,
                        doi |-> <<>>]>>

\* C17: when the decoding of some article elements fails, the result of
\* parseEFetchXML is the records of the other elements, in document order.
C17_FailedArticleSkipped ==
    Applied("parseEFetchXML")
    => LET es == input.body.doc.Articles
           rs == The(output)
           ok == {i \in 1..Len(es) : ~es[i].raises}
           nth(k) == CHOOSE i \in ok : Cardinality({j \in ok : j <= i}) = k
       IN  /\ DOMAIN rs = 1..Cardinality(ok)
           /\ \A k \in 1..Cardinality(ok) :
                  /\ rs[k].pmid = TextOrEmpty(es[nth(k)].PMID)
                  /\ rs[k].title = TextOrEmpty(es[nth(k)].ArticleTitle)

C17_Witness ==
    /\ Applied("parseEFetchXML")
    /\ Len(input.body.doc.Articles) = 3
    /\ input.body.doc.Articles[1].PMID = Some(<<"8">>)
    /\ ~input.body.doc.Articles[1].raises
    /\ input.body.doc.Articles[2].raises
    /\ input.body.doc.Articles[3].PMID = Some(<<"7">>)
    /\ ~input.body.doc.Articles[3].raises
    /\ Len(The(output)) = 2
    /\ The(output)[1].pmid = <<"8">> /\ The(output)[2].pmid = <<"7">>

\* C18: a fetch makes at most 3 attempts and its backoff sleeps last 2 s,
\* then 4 s, then 8 s.
C18_GuideSchedule ==
    \A p \in Procs :
        /\ gets[p] <= 3
        /\ \A i \in 1..Len(slept[p]) : slept[p][i] = (2 ^ i) * 1000

\* the handlers that have answered a request object of the method
Answered(p, method) ==
    /\ pc[p] = "done" /\ req[p] # Absent /\ resp[p] # Absent
    /\ The(req[p]).body = "object"
    /\ The(req[p]).method = Some(method)

\* C19: every tools/list is answered with the same 7 entries, and a
\* tools/call is routed to an operation (and answered with a result) if
\* its name is one of the catalogue's, and answered with an error if not.
C19_CatalogueMatchesDispatch ==
    \A p \in Procs :
        /\ Answered(p, "tools/list")
           => /\ The(resp[p]).data.error = Absent
              /\ The(The(resp[p]).data.result).tools =
                     <<"search_articles", "get_article_details", "search_by_compound",
                       "search_clinical_trials", "search_by_author",
                       "advanced_boolean_search", "get_article_citations">>
        /\ Answered(p, "tools/call")
           => LET named == The(req[p]).params # Absent
                           /\ The(The(req[p]).params).name # Absent
                  inCatalogue == named /\ \E i \in 1..Len(TOOLS) :
                                     TOOLS[i] = The(The(The(req[p]).params).name)
              IN  IF inCatalogue
                  THEN /\ The(resp[p]).data.error = Absent
                       /\ The(The(resp[p]).data.result).kind = "content"
                  ELSE /\ The(resp[p]).data.result = Absent
                       /\ The(The(resp[p]).data.error).message = "Unknown tool"

C19_Witness ==
    \E p \in Procs :
        /\ Answered(p, "tools/list")
        /\ Len(The(The(resp[p]).data.result).tools) = 7
        /\ The(The(resp[p]).data.result).tools[7] = "get_article_citations"

\* the {xml} and {text} objects of the bodies an endpoint answers with
WholePayloads(url) ==
    UNION {{[xml |-> Some(b), text |-> Absent], [xml |-> Absent, text |-> Some(b)]} :
              b \in Bodies(url)}

\* C20: with two handlers in flight, every step that changes the store
\* either drops one entry or is the cache.put of a handler that received a
\* 200 response: the entry under that handler's cache URL becomes the whole
\* payload of that response with max-age 3600, replacing what was there,
\* and every other entry is left as it was; so each entry always is the
\* whole payload of one response to a request with its key, never a mix
\* of two.
C20_EntriesWrittenWhole ==
    [][/\ cache' # cache
          => \/ \E u \in DOMAIN cache :
                    cache' = [v \in DOMAIN cache \ {u} |-> cache[v]]
             \/ \E p \in Procs :
                    /\ pc[p] = "put" /\ pc'[p] = "done"
                    /\ lastStatus[p] = Some(200)
                    /\ The(result[p]) \in WholePayloads(The(call[p]).url)
                    /\ DOMAIN cache' = DOMAIN cache \cup {CacheUrl(cacheKey[p])}
                    /\ cache'[CacheUrl(cacheKey[p])] =
                           [body |-> The(result[p]), maxAge |-> 3600]
                    /\ \A u \in DOMAIN cache \ {CacheUrl(cacheKey[p])} :
                           cache'[u] = cache[u]
       /\ \A u \in DOMAIN cache' :
              /\ cache'[u].maxAge = 3600
              /\ (cache'[u].body.xml = Absent) # (cache'[u].body.text = Absent)
      ]_vars

C20_Witness ==
    /\ pc[1] = "done" /\ pc[2] = "done"
    /\ puts[1] = 1 /\ puts[2] = 1
    /\ cacheKey[1] = cacheKey[2]
    /\ The(outcome[1]).payload # The(outcome[2]).payload
    /\ CacheUrl(cacheKey[1]) \in DOMAIN cache
    /\ cache[CacheUrl(cacheKey[1])].body = The(outcome[2]).payload

\* a handler is inside fetchWithRetry
InFetch(p) == pc[p] \in {"match", "fetch", "put", "sleep"}

\* C21: when every await settles, a handler that entered fetchWithRetry
\* reaches its end, with a payload or with the error of the last attempt,
\* after at most 3 GETs and 2 sleeps, and has then its one response, the
\* envelope of the tool's result.
C21_InvocationFinishes ==
    \A p \in Procs :
        InFetch(p) ~> (/\ pc[p] = "done"
                       /\ outcome[p] # Absent
                       /\ resp[p] # Absent
                       /\ The(resp[p]).data.error = Absent
                       /\ gets[p] <= 3 /\ Len(slept[p]) <= 2)

C21_Witness ==
    \E p \in Procs :
        /\ pc[p] = "done" /\ gets[p] = 3 /\ Len(slept[p]) = 2
        /\ The(outcome[p]).kind = "throw"
        /\ The(outcome[p]).error.kind = "networkError"
        /\ The(resp[p]).data.result # Absent

\* C22: when fetchWithRetry has ended, by a hit, a miss, a 404 or a
\* failure, the caller's urlParams object has the names and values it was
\* built with, and no api_key the caller did not put there.
C22_CallerParamsUnchanged ==
    \A p \in Procs :
        (pc[p] = "done" /\ call[p] # Absent)
        => /\ params[p] = The(call[p]).params
           /\ ~HasProp(The(call[p]).params, <<"a", "p", "i", "_", "k", "e", "y">>)
              => ~HasProp(params[p], <<"a", "p", "i", "_", "k", "e", "y">>)

\* C23: once an attempt has received a 200 response, the fetch issues no
\* further GET and returns the payload of that response, also when reading
\* the body or cache.put fails.
C23_SuccessIsFinal ==
    [][\A p \in Procs :
          /\ (pc[p] = "fetch" /\ lastStatus'[p] = Some(200))
             => pc'[p] \in {"put", "done"}
          /\ (pc[p] = "put" /\ pc'[p] # "put")
             => /\ pc'[p] = "done"
                /\ gets'[p] = gets[p]
                /\ outcome'[p] = Some([kind |-> "payload", payload |-> The(result[p])])
      ]_vars

\* the objects of one or two properties
SmallObjects ==
    {o \in ParamObjects(1) \cup ParamObjects(2) : DistinctNames(o)}

SameMapping(o1, o2) ==
    {o1[i] : i \in 1..Len(o1)} = {o2[i] : i \in 1..Len(o2)}

LogLines(url, urlParams, key, hit, attempts, error) ==
    (IF hit THEN <<<<"Cache hit:", key>>>> ELSE <<>>)
    \o [i \in 1..(2 * attempts) |->
           IF i % 2 = 1
           THEN <<"PubMed API request (attempt):", (i + 1) \div 2, url>>
           ELSE <<"Parameters:", urlParams>>]
    \o (IF error # Absent
        THEN <<<<"Error on attempt:", The(error).attempt + 1, The(error).kind>>>>
        ELSE <<>>)

\* the log of handler p had the configured API key been key
LogLinesWith(p, key) ==
    LET withKey == InjectApiKey(The(call[p]).params, key)
    IN  LogLines(The(call[p]).url, withKey, getCacheKey(The(call[p]).url, withKey),
                 pc[p] = "done" /\ gets[p] = 0, gets[p], lastError[p])

\* C25: the lines a fetch has logged are those it would have logged at
\* this point under any other value of the API key, and none of them holds
\* the key.
C25_LogsIndependentOfKey ==
    \A p \in Procs :
        call[p] # Absent /\ pc[p] # "match"
        => LET logged == LogLines(The(call[p]).url, params[p], cacheKey[p],
                                  pc[p] = "done" /\ gets[p] = 0, gets[p], lastError[p])
           IN  /\ \A key \in ApiKeys : logged = LogLinesWith(p, key)
               /\ \A i \in 1..Len(logged) :
                      logged[i][1] = "Parameters:"
                      => ~HasProp(logged[i][2], <<"a", "p", "i", "_", "k", "e", "y">>)
====
